---- MODULE Spec2Model ----
(***************************************************************************)
(* Session-event reconstruction of the RPA recorder toolkit:               *)
(*   - EnhancedMurexRpaGenerator._group_text_sequences                     *)
(*   - EnhancedMurexRpaGenerator.extract_enhanced_interactions             *)
(*   - EnhancedMurexRpaGenerator._create_time_windows                      *)
(*   - CompleteVideoProcessor._find_interaction_gaps                       *)
(*   - CompleteVideoProcessor._assess_workflow_completeness                *)
(*   - WorkflowValidator                                                   *)
(*   - CompleteVideoProcessor.process_complete_workflow,                   *)
(*     EnhancedMurexRpaGenerator.process_enhanced_workflow and             *)
(*     SimpleRpaGenerator.process_single_session                           *)
(* and the capture side:                                                   *)
(*   - MultiScreenVideoRecorder (start_recording, stop_recording and the   *)
(*     video and audio threads)                                            *)
(*   - MultiScreenInteractionLogger (start_logging, stop_logging and the   *)
(*     mouse thread)                                                       *)
(*                                                                         *)
(* Timestamps, durations and thresholds are Python floats in seconds; the  *)
(* model counts them in integer ticks of half a second (2.0 s = 4 ticks).  *)
(* Only differences and comparisons of timestamps are computed, so the     *)
(* unit does not change any result.                                        *)
(*                                                                         *)
(* Python's None is modelled as the empty tuple <<>> and a present value v *)
(* as <<v>>.  A Python str is a tuple of one-character strings.            *)
(***************************************************************************)
EXTENDS Integers, Sequences, FiniteSets, Bags, TLC

VARIABLES
    pc,                 \* position of the operation under check
    keyboard_events,    \* data['keyboard_events']
    mouse_interactions, \* data['mouse_interactions']
    app_switches,       \* data['app_switches']
    event_index,        \* number of keyboard events the grouper loop has consumed
    current_text,       \* grouper accumulator
    sequence_start,     \* grouper: timestamp of the accumulation, or None
    sequences,          \* grouper output list
    interactions,       \* list of UIInteraction
    window_size,        \* argument of _create_time_windows
    windows,            \* result of _create_time_windows
    session_duration,   \* argument of _find_interaction_gaps
    gap_threshold,      \* argument of _find_interaction_gaps
    gaps,               \* result of _find_interaction_gaps
    rpa_commands,       \* the generated text
    completion_score,   \* result of _assess_workflow_completeness, or None
    video_file,         \* the file at video_path
    json_file,          \* the file at json_path
    validation,         \* outcome of the validator function under check
    processor,          \* the workflow method that runs
    validation_results, \* result of the pre-flight validation, or None
    api_requests,       \* number of requests sent to the generation API
    api_response,       \* the answer to the request, or None
    output_file,        \* content of the output file, or None
    returned,           \* value returned by the workflow method, or None
    recording,          \* MultiScreenVideoRecorder.recording, the shared flag
    barriers,           \* every threading.Barrier the recorder has created
    sync_barrier,       \* index in barriers of the recorder's current sync_barrier
    threads,            \* every capture thread the recorder has started
    record_thread,      \* index in threads of record_thread, or None
    audio_thread,       \* index in threads of audio_thread, or None
    frame_timestamps,   \* number of frames appended since the last start
    audio_frames,       \* number of audio chunks appended since the last start
    joined,             \* threads joined by the latest stop_recording, in order
    logging,            \* MultiScreenInteractionLogger.logging, the shared flag
    click_state,        \* MultiScreenInteractionLogger.click_state
    logged,             \* types of the entries of the logger's interactions list
    pressed_buttons,    \* what NSEvent.pressedMouseButtons() reads: 0 or 1
    mouse_threads       \* state of every _mouse_loop thread the logger has started

logVars == <<keyboard_events, mouse_interactions, app_switches>>
groupVars == <<event_index, current_text, sequence_start, sequences>>
windowVars == <<window_size, windows>>
gapVars == <<session_duration, gap_threshold, gaps>>
scoreVars == <<rpa_commands, completion_score>>
validatorVars == <<video_file, json_file, validation>>
workflowVars ==
    <<processor, validation_results, api_requests, api_response, output_file, returned>>
recorderVars ==
    <<recording, barriers, sync_barrier, threads, record_thread, audio_thread,
      frame_timestamps, audio_frames, joined>>
mouseVars == <<logging, click_state, logged, pressed_buttons, mouse_threads>>
captureVars == <<recorderVars, mouseVars>>
vars ==
    <<pc, logVars, groupVars, interactions, windowVars, gapVars, scoreVars,
      validatorVars, workflowVars, captureVars>>

(***************************************************************************)
(* Bounds of the model.                                                    *)
(***************************************************************************)
\* longest keyboard stream given to the grouper
MaxKeys == 3
\* most events (mouse + keyboard + app switch) in one event log
MaxEvents == 3
\* largest timestamp (ticks) of an event in an event log
MaxTs == 1
\* longest interaction list given to the windower and the gap analyzer
MaxInteractions == 3
\* largest timestamp (ticks) in such a list
MaxTime == 3
\* largest window_size (ticks)
MaxWindow == 2
\* largest session_duration (ticks)
MaxDuration == 4
\* largest gap_threshold (ticks)
MaxThreshold == 2
MaxScored == 17
\* most capture threads one recorder starts over its life
MaxThreads == 3
\* most frames, and most audio chunks, appended in one recording
MaxFrames == 1
\* most start_logging calls on one interaction logger
MaxSessions == 2
\* most press and release entries in one mouse log
MaxLogged == 3

None == <<>>
Some(v) == <<v>>

Range(s) == {s[i] : i \in DOMAIN s}

SeqsUpTo(S, n) == UNION {[1..k -> S] : k \in 0..n}

(***************************************************************************)
(* Text-sequence grouper.                                                  *)
(***************************************************************************)
\* key names of one character: len(key) == 1
Characters == {"a", "b", " "}
Whitespace == {" "}

\* bool(text.strip()): some character of text is not whitespace
StripNonEmpty(text) == \E i \in DOMAIN text : text[i] \notin Whitespace

KeyEvent(type, key_name, is_character, timestamp) ==
    [type |-> type, key_name |-> key_name, is_character |-> is_character,
     timestamp |-> timestamp]

TextSequence(timestamp, text, end_action) ==
    [timestamp |-> timestamp, text |-> text, end_action |-> end_action]

GroupState(seqs, text, start) ==
    [sequences |-> seqs, current_text |-> text, sequence_start |-> start]

GroupInit == GroupState(<<>>, <<>>, None)

\* Return / Enter / Tab branch: emit the accumulator if it is not blank, reset
EndSequence(st, end_action) ==
    GroupState(
        IF StripNonEmpty(st.current_text)
        THEN Append(st.sequences,
                    TextSequence(st.sequence_start, st.current_text, end_action))
        ELSE st.sequences,
        <<>>, None)

\* Delete / BackSpace branch
DeleteKey(st, timestamp) ==
    IF st.current_text # <<>>
    THEN [st EXCEPT !.current_text = SubSeq(@, 1, Len(@) - 1)]
    ELSE [st EXCEPT !.sequences =
              Append(@, TextSequence(Some(timestamp), <<>>, "delete"))]

\* regular character branch
CharacterKey(st, key, timestamp) ==
    [st EXCEPT !.sequence_start = IF st.current_text = <<>>
                                  THEN Some(timestamp) ELSE @,
               !.current_text = Append(@, key)]

\* GroupStep without the test of is_character
GroupStepAnyKey(st, event) ==
    IF event.type = "key_press"
    THEN LET key == event.key_name
             timestamp == event.timestamp
         IN  IF key \in {"Return", "Enter"} THEN EndSequence(st, "enter")
             ELSE IF key = "Tab" THEN EndSequence(st, "tab")
             ELSE IF key \in {"Delete", "BackSpace"} THEN DeleteKey(st, timestamp)
             ELSE IF key # "" /\ key \in Characters
                  THEN CharacterKey(st, key, timestamp)
             ELSE st
    ELSE st

\* one iteration of the loop over keyboard_events
GroupStep(st, event) ==
    IF event.type = "key_press" /\ event.is_character
    THEN LET key == event.key_name
             timestamp == event.timestamp
         IN  IF key \in {"Return", "Enter"} THEN EndSequence(st, "enter")
             ELSE IF key = "Tab" THEN EndSequence(st, "tab")
             ELSE IF key \in {"Delete", "BackSpace"} THEN DeleteKey(st, timestamp)
             ELSE IF key # "" /\ key \in Characters
                  THEN CharacterKey(st, key, timestamp)
             ELSE st
    ELSE st

\* RemainingText that tests the text without stripping it
RemainingTextUnstripped(st) ==
    IF st.current_text # <<>>
    THEN Append(st.sequences,
                TextSequence(st.sequence_start, st.current_text, "incomplete"))
    ELSE st.sequences

\* "Handle remaining text": the sequences returned once the loop has ended
RemainingText(st) ==
    IF StripNonEmpty(st.current_text)
    THEN Append(st.sequences,
                TextSequence(st.sequence_start, st.current_text, "incomplete"))
    ELSE st.sequences

RECURSIVE GroupLoop(_, _)
\* state of the loop after the first n events
GroupLoop(events, n) ==
    IF n = 0 THEN GroupInit
    ELSE GroupStep(GroupLoop(events, n - 1), events[n])

group_text_sequences(events) == RemainingText(GroupLoop(events, Len(events)))

(***************************************************************************)
(* Interaction extractor.                                                  *)
(***************************************************************************)
UIInteraction(timestamp, action_type, description, ui_context, coordinates, text_content) ==
    [timestamp |-> timestamp, action_type |-> action_type,
     description |-> description, ui_context |-> ui_context,
     coordinates |-> coordinates, text_content |-> text_content,
     confidence |-> 0]

MouseEvent(type, button, timestamp, x, y) ==
    [type |-> type, button |-> button, timestamp |-> timestamp,
     position |-> [x |-> x, y |-> y]]

AppSwitch(timestamp, from_app, to_app) ==
    [timestamp |-> timestamp, from_app |-> from_app, to_app |-> to_app]

\* [f(x) for x in s]
MapSeq(s, f(_)) == [i \in DOMAIN s |-> f(s[i])]

\* IsLeftPress without the test of the button
IsAnyPress(event) == event.type = "mouse_press"

IsLeftPress(event) == event.type = "mouse_press" /\ event.button = Some("left")

ClickInteraction(event) ==
    UIInteraction(event.timestamp, "click", <<"Click at screen location">>,
                  None, Some(<<event.position.x, event.position.y>>), None)

\* the clicks list built from data['mouse_interactions']
Clicks(mouse_events) == MapSeq(SelectSeq(mouse_events, IsLeftPress), ClickInteraction)

HasText(seq) == StripNonEmpty(seq.text)

\* seq['timestamp'] is a float whenever seq['text'] is not blank
TypeInteraction(seq) ==
    UIInteraction(seq.timestamp[1], "type", <<"Type", seq.text>>,
                  Some(seq.end_action), None, Some(seq.text))

TypeInteractions(text_sequences) ==
    MapSeq(SelectSeq(text_sequences, HasText), TypeInteraction)

NavigateInteraction(switch) ==
    UIInteraction(switch.timestamp, "navigate",
                  <<"Switch from", switch.from_app, "to", switch.to_app>>,
                  Some("app_switch:" \o switch.to_app), None, None)

NavigateInteractions(switches) == MapSeq(switches, NavigateInteraction)

\* InsertByTimestamp putting x before the elements of equal key (not stable)
InsertBeforeEqual(sorted, x) ==
    LET k == Cardinality({i \in DOMAIN sorted : sorted[i].timestamp < x.timestamp})
    IN  SubSeq(sorted, 1, k) \o <<x>> \o SubSeq(sorted, k + 1, Len(sorted))

\* list.sort / sorted with key = timestamp: stable, ascending.
\* InsertByTimestamp puts x behind every element whose key is <= x's key.
InsertByTimestamp(sorted, x) ==
    LET k == Cardinality({i \in DOMAIN sorted : sorted[i].timestamp <= x.timestamp})
    IN  SubSeq(sorted, 1, k) \o <<x>> \o SubSeq(sorted, k + 1, Len(sorted))

\* SortByTimestamp that leaves the list as it is
SortNothing(s) == s

RECURSIVE SortByTimestamp(_)
SortByTimestamp(s) ==
    IF s = <<>> THEN <<>>
    ELSE InsertByTimestamp(SortByTimestamp(SubSeq(s, 1, Len(s) - 1)), s[Len(s)])

\* the list before "Sort chronologically": typed text, then clicks, then switches
UnsortedInteractions(mouse_events, keys, switches) ==
    TypeInteractions(group_text_sequences(keys))
        \o Clicks(mouse_events)
        \o NavigateInteractions(switches)

extract_enhanced_interactions(mouse_events, keys, switches) ==
    SortByTimestamp(UnsortedInteractions(mouse_events, keys, switches))

(***************************************************************************)
(* Timeline / window builder.                                              *)
(***************************************************************************)
TimeWindow(start, end, members) ==
    [start |-> start, end |-> end, interactions |-> members]

NewWindow(interaction) ==
    TimeWindow(interaction.timestamp, interaction.timestamp, <<interaction>>)

\* FitsWindow with a strict comparison
FitsWindowStrict(interaction, current_window, size) ==
    interaction.timestamp - current_window.end < size

\* the test that keeps an interaction in the current window
FitsWindow(interaction, current_window, size) ==
    interaction.timestamp - current_window.end <= size

\* one iteration of the loop over interactions[1:]
WindowStep(st, interaction, size) ==
    IF FitsWindow(interaction, st.current_window, size)
    THEN [st EXCEPT !.current_window.end = interaction.timestamp,
                    !.current_window.interactions = Append(@, interaction)]
    ELSE [windows |-> Append(st.windows, st.current_window),
          current_window |-> NewWindow(interaction)]

RECURSIVE WindowLoop(_, _, _)
\* state of the loop once interactions[1..n] are placed (n >= 1)
WindowLoop(list, n, size) ==
    IF n = 1 THEN [windows |-> <<>>, current_window |-> NewWindow(list[1])]
    ELSE WindowStep(WindowLoop(list, n - 1, size), list[n], size)

\* CloseWindows without the final append
CloseWindowsDropLast(st) == st.windows

\* "Add the last window"
CloseWindows(st) == Append(st.windows, st.current_window)

create_time_windows(list, size) ==
    IF list = <<>> THEN <<>>
    ELSE CloseWindows(WindowLoop(list, Len(list), size))

(***************************************************************************)
(* Gap analyzer.                                                           *)
(***************************************************************************)
Gap(start, end, duration) == [start |-> start, end |-> end, duration |-> duration]

\* ExceedsThreshold that also reports a span equal to the threshold
ReachesThreshold(duration, threshold) == duration >= threshold

\* the test that reports a span as a gap
ExceedsThreshold(duration, threshold) == duration > threshold

LeadingGap(sorted, threshold) ==
    LET first_timestamp == sorted[1].timestamp
    IN  IF ExceedsThreshold(first_timestamp, threshold)
        THEN <<Gap(0, first_timestamp, first_timestamp)>>
        ELSE <<>>

RECURSIVE InteriorGaps(_, _, _)
\* gaps found by the iterations i = 0 .. n-1 of the loop over consecutive pairs
InteriorGaps(sorted, n, threshold) ==
    IF n = 0 THEN <<>>
    ELSE LET current_time == sorted[n].timestamp
             next_time == sorted[n + 1].timestamp
             gap_duration == next_time - current_time
         IN  InteriorGaps(sorted, n - 1, threshold)
                 \o (IF ExceedsThreshold(gap_duration, threshold)
                     THEN <<Gap(current_time, next_time, gap_duration)>>
                     ELSE <<>>)

\* TrailingGap that reports every non-empty span after the last interaction
TrailingGapAlways(sorted, duration, threshold) ==
    LET last_timestamp == sorted[Len(sorted)].timestamp
    IN  IF duration - last_timestamp > 0
        THEN <<Gap(last_timestamp, duration, duration - last_timestamp)>>
        ELSE <<>>

TrailingGap(sorted, duration, threshold) ==
    LET last_timestamp == sorted[Len(sorted)].timestamp
    IN  IF ExceedsThreshold(duration - last_timestamp, threshold)
        THEN <<Gap(last_timestamp, duration, duration - last_timestamp)>>
        ELSE <<>>

\* WholeSessionGap that reports nothing for a session without interactions
NoSessionGap(duration) == <<>>

\* the result for an empty interaction list: the whole session is one gap
WholeSessionGap(duration) == <<Gap(0, duration, duration)>>

find_interaction_gaps(list, duration, threshold) ==
    IF list = <<>> THEN WholeSessionGap(duration)
    ELSE LET sorted_interactions == SortByTimestamp(list)
         IN  LeadingGap(sorted_interactions, threshold)
                 \o InteriorGaps(sorted_interactions, Len(sorted_interactions) - 1,
                                 threshold)
                 \o TrailingGap(sorted_interactions, duration, threshold)

(***************************************************************************)
(* CompleteVideoProcessor._assess_workflow_completeness.                   *)
(*                                                                         *)
(* A generated text is a run of phrases followed by filler characters that *)
(* belong to no keyword; the filler is kept as a count, the phrases as the  *)
(* characters they are.                                                    *)
(***************************************************************************)
FillerChar == "x"

Text(body, filler) == [body |-> body, filler |-> filler]

\* len(text)
TextLen(text) == Len(text.body) + text.filler

Min(a, b) == IF a <= b THEN a ELSE b

Max(a, b) == IF a >= b THEN a ELSE b

\* text[i], counted from 1
CharAt(text, i) == IF i <= Len(text.body) THEN text.body[i] ELSE FillerChar

\* str.lower() of one character
LowerChar ==
    "A" :> "a" @@ "B" :> "b" @@ "C" :> "c" @@ "D" :> "d" @@ "E" :> "e" @@ "F" :> "f" @@
    "G" :> "g" @@ "H" :> "h" @@ "I" :> "i" @@ "J" :> "j" @@ "K" :> "k" @@ "L" :> "l" @@
    "M" :> "m" @@ "N" :> "n" @@ "O" :> "o" @@ "P" :> "p" @@ "Q" :> "q" @@ "R" :> "r" @@
    "S" :> "s" @@ "T" :> "t" @@ "U" :> "u" @@ "V" :> "v" @@ "W" :> "w" @@ "X" :> "x" @@
    "Y" :> "y" @@ "Z" :> "z"

\* text.lower()
Lower(text) ==
    Text([i \in DOMAIN text.body |->
             IF text.body[i] \in DOMAIN LowerChar THEN LowerChar[text.body[i]]
             ELSE text.body[i]],
         text.filler)

\* word in text: word occurs as a run of consecutive characters of text; every
\* run that starts in the filler reads what the run at the first filler
\* character reads
Contains(text, word) ==
    \E i \in 1..Min(TextLen(text) - Len(word) + 1, Len(text.body) + 1) :
        \A k \in 1..Len(word) : CharAt(text, i + k - 1) = word[k]

\* has_login keywords
login_words ==
    {
      <<"l", "o", "g", "i", "n">>,  \* login
      <<"u", "s", "e", "r", "n", "a", "m", "e">>,  \* username
      <<"p", "a", "s", "s", "w", "o", "r", "d">>,  \* password
      <<"a", "u", "t", "h", "e", "n", "t", "i", "c", "a", "t", "e">>   \* authenticate
    }

\* has_completion keywords
completion_words ==
    {
      <<"c", "o", "m", "p", "l", "e", "t", "e">>,  \* complete
      <<"f", "i", "n", "i", "s", "h">>,  \* finish
      <<"c", "l", "o", "s", "e">>,  \* close
      <<"f", "i", "n", "a", "l">>,  \* final
      <<"r", "e", "s", "u", "l", "t">>,  \* result
      <<"s", "u", "m", "m", "a", "r", "y">>,  \* summary
      <<"e", "n", "d">>,  \* end
      <<"d", "o", "n", "e">>   \* done
    }

\* Murex-specific phrases
murex_patterns ==
    {
      <<"p", "r", "e", "s", "s", " ", "s", "p", "a", "c", "e", "b", "a", "r">>,  \* press spacebar
      <<"i", "n", "p", "u", "t", " ", "f", "i", "e", "l", "d", " ", "a", "n", "d", " ", "t", "y", "p", "e">>,  \* input field and type
      <<"d", "r", "o", "p", "d", "o", "w", "n", " ", "i", "c", "o", "n">>,  \* dropdown icon
      <<"t", "h", "r", "e", "e", " ", "d", "o", "t", "s">>,  \* three dots
      <<"d", "o", "u", "b", "l", "e", "-", "c", "l", "i", "c", "k">>,  \* double-click
      <<"t", "o", "p", " ", "b", "a", "r">>,  \* top bar
      <<"c", "t", "r", "l", "+", "f">>,  \* ctrl+f
      <<"s", "e", "a", "r", "c", "h", " ", "b", "a", "r", " ", "a", "n", "d", " ", "p", "r", "e", "s", "s", " ", "e", "n", "t", "e", "r">>   \* search bar and press enter
    }

MinMurexPatterns == 3

MinCommandLength == 400

LengthPerInteraction == 25

AnyIn(words, text) == \E word \in words : Contains(text, word)

murex_pattern_count(command_lower) ==
    Cardinality({pattern \in murex_patterns : Contains(command_lower, pattern)})

\* HasMurexPatterns that needs more than MinMurexPatterns phrases
HasMurexPatternsStrict(count) == count > MinMurexPatterns

HasMurexPatterns(count) == count >= MinMurexPatterns

has_numbered_steps(text) == Contains(text, <<"1", ".">>) /\ Contains(text, <<"2", ".">>)

has_descriptive_headers(text) == Contains(text, <<"*", "*">>)

expected_min_length(list) == Max(MinCommandLength, Len(list) * LengthPerInteraction)

\* AdequateLength that rejects a text of exactly the expected length
AdequateLengthStrict(length, expected) == length > expected

AdequateLength(length, expected) == length >= expected

\* Points that gives every criterion one point
OnePoint(flag, weight) == IF flag THEN 1 ELSE 0

\* score += weight if the criterion holds
Points(flag, weight) == IF flag THEN weight ELSE 0

assess_workflow_completeness(text, list) ==
    LET command_lower == Lower(text)
        has_login == AnyIn(login_words, command_lower)
        has_completion == AnyIn(completion_words, command_lower)
        pattern_count == murex_pattern_count(command_lower)
        has_murex_patterns == HasMurexPatterns(pattern_count)
        numbered == has_numbered_steps(text)
        headers == has_descriptive_headers(text)
        expected == expected_min_length(list)
        adequate_length == AdequateLength(TextLen(text), expected)
    IN  [score |-> Points(has_login, 2) + Points(has_completion, 2)
                     + Points(adequate_length, 2) + Points(has_murex_patterns, 2)
                     + Points(numbered, 1) + Points(headers, 1),
         has_login |-> has_login,
         has_completion |-> has_completion,
         adequate_length |-> adequate_length,
         has_murex_patterns |-> has_murex_patterns,
         murex_pattern_count |-> pattern_count,
         has_structured_format |-> numbered /\ headers,
         command_length |-> TextLen(text),
         expected_min_length |-> expected]

(***************************************************************************)
(* WorkflowValidator.                                                      *)
(*                                                                         *)
(* A parsed JSON value carries its Python type in `kind`.  An object keeps  *)
(* the keys the validator reads; a key the object does not hold has kind    *)
(* "absent".  The outcome of a call is the list (or dictionary) it returns, *)
(* or the exception that leaves it.                                        *)
(***************************************************************************)
JValue(kind, value) == [kind |-> kind, value |-> value]

JAbsent == JValue("absent", 0)

JNull == JValue("null", 0)

JNumber(n) == JValue("number", n)

JString(chars) == JValue("string", chars)

JList(items) == JValue("list", items)

JObject(fields) == JValue("object", fields)

\* the dictionary a recorder writes
SessionLog(mouse, keyboard, session_info) ==
    JObject([mouse_interactions |-> mouse, keyboard_events |-> keyboard,
             session_info |-> session_info])

SessionInfo(duration) == JObject([duration |-> duration])

\* key in data, for a dict
HasKey(data, key) == key \in DOMAIN data.value /\ data.value[key].kind # "absent"

\* data.get(key, default), for a dict
Get(data, key, default) == IF HasKey(data, key) THEN data.value[key] ELSE default

\* the types that have a method get
HasGet(v) == v.kind = "object"

\* the types len() accepts
HasLen(v) == v.kind \in {"list", "string", "object"}

\* the types the operator `in` accepts on its right
IsContainer(v) == v.kind \in {"list", "string", "object"}

\* the types that compare with an int by > and <
IsOrdered(v) == v.kind = "number"

\* len(v)
LenOf(v) ==
    IF v.kind = "object"
    THEN Cardinality({key \in DOMAIN v.value : v.value[key].kind # "absent"})
    ELSE Len(v.value)

\* key in data: a key of a dict, an item of a list; a key name is part of no
\* string of the model
KeyIn(key, data) == data.kind = "object" /\ HasKey(data, key)

\* a file on disk: a JSON file holds text that parses ("parsed", with data),
\* text that does not ("malformed"), or bytes that are no text ("undecodable")
JsonFile(exists, content, data) == [exists |-> exists, content |-> content, data |-> data]

VideoFile(exists, size_mb, extension) ==
    [exists |-> exists, size_mb |-> size_mb, extension |-> extension]

\* the message is the fixed part of the source's message; the suggestion
\* changes no result and is left out
ValidationResult(is_valid, message, severity) ==
    [is_valid |-> is_valid, message |-> message, severity |-> severity]

NoException == "none"

Returned(results) == [raised |-> NoException, results |-> results]

Raised(exception) == [raised |-> exception, results |-> <<>>]

MaxVideoSizeMB == 100

LargeVideoSizeMB == 50

VideoExtensions == {<<".", "m", "p", "4">>, <<".", "m", "o", "v">>, <<".", "a", "v", "i">>}

\* s.lower(), for a str kept as its characters
LowerChars(chars) ==
    [i \in DOMAIN chars |->
        IF chars[i] \in DOMAIN LowerChar THEN LowerChar[chars[i]] ELSE chars[i]]

validate_video_file(video) ==
    IF ~video.exists
    THEN Returned(<<ValidationResult(FALSE, "Video file not found", "error")>>)
    ELSE Returned(
           (IF video.size_mb > MaxVideoSizeMB
            THEN <<ValidationResult(FALSE, "Video file too large", "error")>>
            ELSE IF video.size_mb > LargeVideoSizeMB
            THEN <<ValidationResult(TRUE, "Video file large", "warning")>>
            ELSE <<ValidationResult(TRUE, "Video file size OK", "info")>>)
           \o (IF LowerChars(video.extension) \notin VideoExtensions
               THEN <<ValidationResult(FALSE, "Unsupported video format", "error")>>
               ELSE <<>>))

required_keys == <<"mouse_interactions", "keyboard_events">>

MinMouseInteractions == 3

MaxSessionSeconds == 600

\* the results of the interaction counts
CountResults(mouse_count, keyboard_count) ==
    IF mouse_count = 0 /\ keyboard_count = 0
    THEN <<ValidationResult(FALSE, "No interactions found in JSON file", "error")>>
    ELSE IF mouse_count < MinMouseInteractions
    THEN <<ValidationResult(TRUE, "Very few mouse interactions", "warning")>>
    ELSE <<ValidationResult(TRUE, "Interactions found", "info")>>

\* the checks of the parsed data, in the order of the source; each step that
\* the type of a value does not support raises
ValidateJsonData(data) ==
    IF ~IsContainer(data) THEN Raised("TypeError")
    ELSE LET missing_keys == SelectSeq(required_keys, LAMBDA key : ~KeyIn(key, data))
             missing == IF missing_keys # <<>>
                        THEN <<ValidationResult(FALSE, "Missing required JSON keys", "error")>>
                        ELSE <<>>
         IN  IF ~HasGet(data) THEN Raised("AttributeError")
             ELSE LET mouse == Get(data, "mouse_interactions", JList(<<>>))
                      keyboard == Get(data, "keyboard_events", JList(<<>>))
                  IN  IF ~HasLen(mouse) \/ ~HasLen(keyboard) THEN Raised("TypeError")
                      ELSE LET counts == CountResults(LenOf(mouse), LenOf(keyboard))
                               session_info == Get(data, "session_info", JObject(<<>>))
                           IN  IF ~HasGet(session_info) THEN Raised("AttributeError")
                               ELSE LET duration == Get(session_info, "duration", JNumber(0))
                                    IN  IF duration = JNumber(0)
                                        THEN Returned(missing \o counts \o
                                               <<ValidationResult(TRUE, "No session duration info",
                                                                  "warning")>>)
                                        ELSE IF ~IsOrdered(duration) THEN Raised("TypeError")
                                        ELSE IF duration.value > MaxSessionSeconds
                                        THEN Returned(missing \o counts \o
                                               <<ValidationResult(TRUE, "Long session duration",
                                                                  "warning")>>)
                                        ELSE Returned(missing \o counts)

validate_json_file(file) ==
    IF ~file.exists
    THEN Returned(<<ValidationResult(FALSE, "JSON file not found", "error")>>)
    ELSE IF file.content = "undecodable" THEN Raised("UnicodeDecodeError")
    ELSE IF file.content = "malformed"
    THEN Returned(<<ValidationResult(FALSE, "Invalid JSON format", "error")>>)
    ELSE ValidateJsonData(file.data)

SecondsPerMB == 10

MaxTimingDifference == 30

Abs(n) == IF n < 0 THEN -n ELSE n

\* the statements of the try block run to their end
SynchronizationRuns(video, file) ==
    /\ file.exists
    /\ file.content = "parsed"
    /\ HasGet(file.data)
    /\ HasGet(Get(file.data, "session_info", JObject(<<>>)))
    /\ video.exists
    /\ IsOrdered(Get(Get(file.data, "session_info", JObject(<<>>)), "duration", JNumber(0)))

validate_time_synchronization(video, file) ==
    IF ~SynchronizationRuns(video, file)
    THEN Returned(<<ValidationResult(TRUE, "Could not verify timing synchronization",
                                     "warning")>>)
    ELSE LET json_duration ==
                 Get(Get(file.data, "session_info", JObject(<<>>)), "duration", JNumber(0)).value
             estimated_video_duration == video.size_mb * SecondsPerMB
         IN  IF json_duration > 0
             THEN IF Abs(json_duration - estimated_video_duration) > MaxTimingDifference
                  THEN Returned(<<ValidationResult(TRUE, "Potential timing mismatch between video and JSON",
                                                   "warning")>>)
                  ELSE Returned(<<ValidationResult(TRUE, "Video and JSON timing appears synchronized",
                                                   "info")>>)
             ELSE Returned(<<>>)

\* not rpa_commands or not rpa_commands.strip()
IsBlank(text) ==
    text.filler = 0 /\ \A i \in DOMAIN text.body : text.body[i] \in Whitespace

ShortCommandLength == 100

LongCommandLength == 5000

MinMurexTerms == 3

murex_terms ==
    {
      <<"m", "u", "r", "e", "x">>,
      <<"c", "l", "i", "c", "k">>,
      <<"t", "y", "p", "e">>,
      <<"b", "u", "t", "t", "o", "n">>,
      <<"f", "i", "e", "l", "d">>
    }

validate_workflow_output(text) ==
    IF IsBlank(text)
    THEN Returned(<<ValidationResult(FALSE, "No RPA commands generated", "error")>>)
    ELSE LET command_lower == Lower(text)
             found_terms == {term \in murex_terms : Contains(command_lower, term)}
         IN  Returned(
               (IF TextLen(text) < ShortCommandLength
                THEN <<ValidationResult(TRUE, "Generated commands are very short", "warning")>>
                ELSE IF TextLen(text) > LongCommandLength
                THEN <<ValidationResult(TRUE, "Generated commands are very long", "warning")>>
                ELSE <<>>)
               \o (IF ~Contains(command_lower, <<"l", "o", "g", "i", "n">>)
                   THEN <<ValidationResult(TRUE, "No login sequence detected", "warning")>>
                   ELSE <<>>)
               \o (IF Cardinality(found_terms) < MinMurexTerms
                   THEN <<ValidationResult(TRUE, "Few Murex/UI interaction terms found", "warning")>>
                   ELSE <<>>)
               \o (IF Contains(text, <<"[">>) /\ Contains(text, <<"]">>)
                   THEN <<ValidationResult(TRUE, "Placeholder values found in commands", "info")>>
                   ELSE <<>>)
               \o <<ValidationResult(TRUE, "RPA commands generated successfully", "info")>>)

\* the dictionary of the three checks of the files; the fourth entry is added
\* for non-empty commands only (commands is None or Some(text))
validate_complete_workflow(video, file, commands) ==
    LET json == validate_json_file(file)
        with_output == commands # None /\ TextLen(commands[1]) > 0
    IN  IF json.raised # NoException THEN Raised(json.raised)
        ELSE Returned(
               [video |-> validate_video_file(video).results,
                json |-> json.results,
                synchronization |-> validate_time_synchronization(video, file).results,
                output |-> IF with_output THEN Some(validate_workflow_output(commands[1]).results)
                           ELSE None])

(***************************************************************************)
(* CompleteVideoProcessor.process_complete_workflow and                    *)
(* EnhancedMurexRpaGenerator.process_enhanced_workflow.                    *)
(***************************************************************************)
\* the lists of a dictionary of validation results, category by category
ResultLists(results) ==
    <<results.video, results.json, results.synchronization>>
        \o (IF results.output = None THEN <<>> ELSE results.output)

\* has_errors that counts a warning as an error
HasErrorsOrWarnings(results) ==
    \E c \in DOMAIN ResultLists(results) :
        \E i \in DOMAIN ResultLists(results)[c] :
            ResultLists(results)[c][i].severity \in {"error", "warning"}

\* has_errors after the loop over the categories and their results
has_errors(results) ==
    \E c \in DOMAIN ResultLists(results) :
        \E i \in DOMAIN ResultLists(results)[c] :
            ResultLists(results)[c][i].severity = "error"

\* the number of results of the given severities in a dictionary of results
TotalOf(results, severities) ==
    LET lists == ResultLists(results)
    IN  Cardinality(UNION {{<<c, i>> : i \in {k \in DOMAIN lists[c] :
                                                lists[c][k].severity \in severities}} :
                           c \in DOMAIN lists})

\* print_validation_summary that also counts the warnings as errors
SummaryCountsWarnings(results) == TotalOf(results, {"error", "warning"}) = 0

\* print_validation_summary: total_errors == 0
print_validation_summary(results) == TotalOf(results, {"error"}) = 0

\* the answer to requests.post: an exception (timeout, transport error), or a
\* response with a status code whose body holds no candidate ("none"), a
\* candidate without content ("no_content") or text parts ("parts"); text is
\* the parts joined
ApiResponse(raised, status_code, candidates, text) ==
    [raised |-> raised, status_code |-> status_code, candidates |-> candidates,
     text |-> text]

\* HasTextParts that reads the body of a response of any status
HasTextPartsAnyStatus(response) == ~response.raised /\ response.candidates = "parts"

\* the response carries text parts that the method reads
HasTextParts(response) ==
    ~response.raised /\ response.status_code = 200 /\ response.candidates = "parts"

\* text.strip()
Strip(text) ==
    LET body == text.body
        inked == {i \in DOMAIN body : body[i] \notin Whitespace}
        first == IF inked = {} THEN Len(body) + 1
                 ELSE CHOOSE i \in inked : \A j \in inked : i <= j
        last == IF text.filler > 0 \/ inked = {} THEN Len(body)
                ELSE CHOOSE i \in inked : \A j \in inked : i >= j
    IN  Text(SubSeq(body, first, last), text.filler)

PassScore == 6

\* IsIncomplete that lets a score one below PassScore pass
IsIncompleteBelowFive(score) == score < PassScore - 1

\* if completion_score['score'] < 6
IsIncomplete(score) == score < PassScore

\* the three comment lines process_single_session writes, then rpa_commands
HeadedOutput(text) == [header |-> "# RPA Commands Generated", commands |-> text]

\* header + rpa_commands + footer
StructuredOutput(text) ==
    [header |-> "# Enhanced Murex RPA Workflow Commands", commands |-> text,
     footer |-> "# END OF WORKFLOW"]

(***************************************************************************)
(* Inputs.                                                                 *)
(***************************************************************************)
\* (type, key_name, is_character) of the key events of a keyboard stream
KeyKinds ==
    {<<"key_press", k, TRUE>> :
        k \in {"a", " ", "Return", "Enter", "Tab", "Delete", "BackSpace", "Backspace"}}
    \cup {<<"key_press", k, FALSE>> : k \in {"a", "Return", "Tab", "Delete", "Shift"}}
    \cup {<<"key_release", "a", TRUE>>}

\* keyboard stream in capture order: the i-th event is stamped i
StampedStream(kinds) ==
    [i \in DOMAIN kinds |-> KeyEvent(kinds[i][1], kinds[i][2], kinds[i][3], i)]

KeyStreams == {StampedStream(kinds) : kinds \in SeqsUpTo(KeyKinds, MaxKeys)}

\* events of an event log; threads append them in no particular timestamp order
LogKeyEvents ==
    {KeyEvent("key_press", k, TRUE, t) :
        k \in {"a", " ", "Return", "Tab", "BackSpace"}, t \in 0..MaxTs}

LogMouseEvents ==
    {MouseEvent("mouse_press", Some("left"), t, xy[1], xy[2]) :
        xy \in {<<10, 20>>, <<30, 40>>}, t \in 0..MaxTs}
    \cup {MouseEvent("mouse_press", Some("right"), t, 10, 20) : t \in 0..MaxTs}
    \cup {MouseEvent("mouse_release", Some("left"), t, 10, 20) : t \in 0..MaxTs}
    \cup {MouseEvent("mouse_move", None, t, 10, 20) : t \in 0..MaxTs}

LogAppSwitches ==
    {AppSwitch(t, "Excel", to) : to \in {"Murex", "Mail"}, t \in 0..MaxTs}

\* an interaction list handed to the windower or the gap analyzer
ClickAt(t) ==
    UIInteraction(t, "click", <<"Click at screen location">>, None,
                  Some(<<10, 20>>), None)

InteractionLists ==
    {MapSeq(ts, ClickAt) : ts \in SeqsUpTo(0..MaxTime, MaxInteractions)}

\* window_size: float = 2.0
DefaultWindowSize == 4
\* gap_threshold: float = 5.0
DefaultGapThreshold == 10

\* timestamps 0, 1, 10, 10.5 seconds
WindowExample == MapSeq(<<0, 2, 20, 21>>, ClickAt)
\* timestamps 0, 20 seconds of a session of 20 seconds
GapExample == MapSeq(<<0, 40>>, ClickAt)
\* the session ends with its last interaction
GapExampleDuration == GapExample[Len(GapExample)].timestamp

\* phrases of a generated text: a login keyword with a capital, a word that
\* holds the completion keyword 'end', the marks of numbered steps and of a
\* header, and three Murex phrases
Phrases ==
    <<
      <<"L", "o", "g", "i", "n">>,
      <<"S", "e", "n", "d">>,
      <<"1", ".">>,
      <<"2", ".">>,
      <<"*", "*">>,
      <<"P", "r", "e", "s", "s", " ", "S", "p", "a", "c", "e", "b", "a", "r">>,
      <<"t", "h", "r", "e", "e", " ", "d", "o", "t", "s">>,
      <<"C", "t", "r", "l", "+", "F">>
    >>

RECURSIVE JoinPhrases(_, _)
\* the first n phrases that are chosen, each followed by a space
JoinPhrases(chosen, n) ==
    IF n = 0 THEN <<>>
    ELSE JoinPhrases(chosen, n - 1)
             \o (IF n \in chosen THEN Phrases[n] \o <<" ">> ELSE <<>>)

TextBodies == {JoinPhrases(chosen, Len(Phrases)) : chosen \in SUBSET DOMAIN Phrases}

\* n interactions; the scorer reads only their number
ScoredInteractions(n) == [i \in 1..n |-> ClickAt(0)]

\* numbers of interactions: none, and those around the number from which
\* LengthPerInteraction characters each exceed MinCommandLength
ScoredCounts == {0} \cup ((MaxScored - 3)..MaxScored)

\* lengths of a text relative to the expected minimal length
LengthOffsets == {-1, 0, 1}

\* MAX_FILE_SIZE_MB of RpaConfig
MaxFileSizeMB == 20

\* sizes at and just above each limit on the size of a video
VideoSizes ==
    {1, MaxFileSizeMB, MaxFileSizeMB + 1, LargeVideoSizeMB, LargeVideoSizeMB + 1,
     MaxVideoSizeMB, MaxVideoSizeMB + 1}

VideoFiles ==
    {VideoFile(FALSE, 0, <<".", "m", "p", "4">>)}
        \cup {VideoFile(TRUE, size, extension) :
                 size \in VideoSizes,
                 extension \in {<<".", "m", "p", "4">>, <<".", "M", "O", "V">>, <<".", "m", "k", "v">>}}

\* n left clicks, as the recorder logs them
LoggedClicks(n) == [i \in 1..n |-> MouseEvent("mouse_press", Some("left"), i, 10, 20)]

\* n typed characters, as the recorder logs them
LoggedKeys(n) == [i \in 1..n |-> KeyEvent("key_press", "a", TRUE, i)]

MouseValues == {JAbsent, JNull} \cup {JList(LoggedClicks(n)) : n \in {0, 2, 3}}

KeyboardValues == {JAbsent, JNumber(5)} \cup {JList(LoggedKeys(n)) : n \in {0, 1}}

\* durations in seconds: none, short, at and above the timing difference for
\* a video of 1 MB, at and above the longest session
SessionDurations ==
    {0, SecondsPerMB, SecondsPerMB + MaxTimingDifference,
     SecondsPerMB + MaxTimingDifference + 1, MaxSessionSeconds, MaxSessionSeconds + 1}

SessionValues ==
    {JAbsent, JNull, JList(<<>>), SessionInfo(JAbsent), SessionInfo(JString(<<"l", "o", "n", "g">>))}
        \cup {SessionInfo(JNumber(duration)) : duration \in SessionDurations}

\* what json.load can return: a session log, or a value that is no dict
JsonData ==
    {SessionLog(mouse, keyboard, session_info) :
        mouse \in MouseValues, keyboard \in KeyboardValues, session_info \in SessionValues}
        \cup {JList(<<>>), JNumber(5), JNull, JString(<<"a", "b", "c">>)}

JsonFiles ==
    {JsonFile(FALSE, "missing", JNull), JsonFile(TRUE, "undecodable", JNull),
     JsonFile(TRUE, "malformed", JNull)}
        \cup {JsonFile(TRUE, "parsed", data) : data \in JsonData}

\* generated texts handed to validate_workflow_output: none, blank, a short
\* one, and one with every pattern the check looks for at each length limit
OutputTexts ==
    {Text(<<>>, 0), Text(<<" ">>, 0), Text(<<"S", "e", "n", "d">>, 0)}
        \cup {Text(<<"L", "o", "g", "i", "n", ":", " ", "c", "l", "i", "c", "k", " ", "t", "h", "e", " ", "b", "u", "t", "t", "o", "n", ",", " ", "t", "y", "p", "e", " ", "[", "u", "s", "e", "r", "]", " ", "i", "n", " ", "t", "h", "e", " ", "f", "i", "e", "l", "d", " ">>, filler) :
                 filler \in {0, ShortCommandLength - 51, ShortCommandLength - 50,
                             LongCommandLength - 50, LongCommandLength - 49}}

\* a recording that passes every check without warning
GoodVideo == VideoFile(TRUE, 1, <<".", "m", "p", "4">>)

GoodJson ==
    JsonFile(TRUE, "parsed",
             SessionLog(JList(LoggedClicks(3)), JList(LoggedKeys(1)),
                        SessionInfo(JNumber(SecondsPerMB))))

\* recordings handed to a workflow method: no video, a video at and above
\* MAX_FILE_SIZE_MB, a large video (a warning), an unsupported format
WorkflowVideos ==
    {VideoFile(FALSE, 0, <<".", "m", "p", "4">>), GoodVideo,
     VideoFile(TRUE, MaxFileSizeMB, <<".", "m", "p", "4">>),
     VideoFile(TRUE, MaxFileSizeMB + 1, <<".", "m", "p", "4">>),
     VideoFile(TRUE, LargeVideoSizeMB + 1, <<".", "m", "p", "4">>),
     VideoFile(TRUE, 1, <<".", "m", "k", "v">>)}

\* logs handed to a workflow method: no file, no JSON, a list, a log without
\* the required keys, a log with warnings only, a log without complaint
WorkflowJsons ==
    {JsonFile(FALSE, "missing", JNull), JsonFile(TRUE, "malformed", JNull),
     JsonFile(TRUE, "parsed", JList(<<>>)),
     JsonFile(TRUE, "parsed", SessionLog(JAbsent, JAbsent, JAbsent)),
     JsonFile(TRUE, "parsed",
              SessionLog(JList(LoggedClicks(2)), JList(LoggedKeys(0)), JAbsent)),
     GoodJson}

\* texts of a response: each choice of phrases, short or filled up to
\* MinCommandLength characters, and a blank text
ResponseTexts ==
    UNION {{Text(body, 0), Text(body, MinCommandLength - Len(body))} : body \in TextBodies}
        \cup {Text(<<" ">>, 0)}

ApiResponses ==
    {ApiResponse(TRUE, 0, "none", Text(<<>>, 0)),
     ApiResponse(FALSE, 500, "none", Text(<<>>, 0)),
     ApiResponse(FALSE, 500, "parts", Text(<<"S", "e", "n", "d">>, 0)),
     ApiResponse(FALSE, 200, "none", Text(<<>>, 0)),
     ApiResponse(FALSE, 200, "no_content", Text(<<>>, 0))}
        \cup {ApiResponse(FALSE, 200, "parts", text) : text \in ResponseTexts}

(***************************************************************************)
(* State machines: one specification per operation.                        *)
(***************************************************************************)
NoLog ==
    /\ keyboard_events = <<>>
    /\ mouse_interactions = <<>>
    /\ app_switches = <<>>

NoGroup ==
    /\ event_index = 0
    /\ current_text = <<>>
    /\ sequence_start = None
    /\ sequences = <<>>

NoWindows == window_size = DefaultWindowSize /\ windows = <<>>

NoGaps ==
    /\ session_duration = 0
    /\ gap_threshold = DefaultGapThreshold
    /\ gaps = <<>>

NoScore == rpa_commands = Text(<<>>, 0) /\ completion_score = None

NoValidator == video_file = None /\ json_file = None /\ validation = None

NoWorkflow ==
    /\ processor = "none"
    /\ validation_results = None
    /\ api_requests = 0
    /\ api_response = None
    /\ output_file = None
    /\ returned = None

NoRecorder ==
    /\ recording = FALSE
    /\ barriers = <<>>
    /\ sync_barrier = 0
    /\ threads = <<>>
    /\ record_thread = None
    /\ audio_thread = None
    /\ frame_timestamps = 0
    /\ audio_frames = 0
    /\ joined = <<>>

NoMouseLogger ==
    /\ logging = FALSE
    /\ click_state = FALSE
    /\ logged = <<>>
    /\ pressed_buttons = 0
    /\ mouse_threads = <<>>

NoCapture == NoRecorder /\ NoMouseLogger

\* ---- _group_text_sequences, one loop iteration per step ----
InitGroup ==
    /\ pc = "loop"
    /\ keyboard_events \in KeyStreams
    /\ mouse_interactions = <<>>
    /\ app_switches = <<>>
    /\ NoGroup
    /\ interactions = <<>>
    /\ NoWindows
    /\ NoGaps
    /\ NoScore
    /\ NoValidator
    /\ NoWorkflow
    /\ NoCapture

ProcessKeyEvent ==
    /\ pc = "loop"
    /\ event_index < Len(keyboard_events)
    /\ LET st == GroupStep(GroupState(sequences, current_text, sequence_start),
                           keyboard_events[event_index + 1])
       IN  /\ sequences' = st.sequences
           /\ current_text' = st.current_text
           /\ sequence_start' = st.sequence_start
    /\ event_index' = event_index + 1
    /\ UNCHANGED <<pc, captureVars, logVars, interactions, windowVars, gapVars, scoreVars,
                   validatorVars, workflowVars>>

HandleRemainingText ==
    /\ pc = "loop"
    /\ event_index = Len(keyboard_events)
    /\ sequences' = RemainingText(GroupState(sequences, current_text, sequence_start))
    /\ pc' = "done"
    /\ UNCHANGED <<captureVars, logVars, event_index, current_text, sequence_start,
                   interactions, windowVars, gapVars, scoreVars,
                   validatorVars, workflowVars>>

NextGroup == ProcessKeyEvent \/ HandleRemainingText

SpecGroup == InitGroup /\ [][NextGroup]_vars

\* ---- extract_enhanced_interactions ----
InitExtract ==
    /\ pc = "start"
    /\ \E nm \in 0..MaxEvents, nk \in 0..MaxEvents, ns \in 0..MaxEvents :
          /\ nm + nk + ns <= MaxEvents
          /\ mouse_interactions \in [1..nm -> LogMouseEvents]
          /\ keyboard_events \in [1..nk -> LogKeyEvents]
          /\ app_switches \in [1..ns -> LogAppSwitches]
    /\ NoGroup
    /\ interactions = <<>>
    /\ NoWindows
    /\ NoGaps
    /\ NoScore
    /\ NoValidator
    /\ NoWorkflow
    /\ NoCapture

ExtractEnhancedInteractions ==
    /\ pc = "start"
    /\ interactions' = extract_enhanced_interactions(mouse_interactions,
                                                     keyboard_events, app_switches)
    /\ pc' = "done"
    /\ UNCHANGED <<captureVars, logVars, groupVars, windowVars, gapVars, scoreVars,
                   validatorVars, workflowVars>>

NextExtract == ExtractEnhancedInteractions

SpecExtract == InitExtract /\ [][NextExtract]_vars

\* ---- _create_time_windows ----
InitWindows ==
    /\ pc = "start"
    /\ NoLog
    /\ NoGroup
    /\ interactions \in InteractionLists \cup {WindowExample}
    /\ window_size \in 0..MaxWindow \cup {DefaultWindowSize}
    /\ windows = <<>>
    /\ NoGaps
    /\ NoScore
    /\ NoValidator
    /\ NoWorkflow
    /\ NoCapture

CreateTimeWindows ==
    /\ pc = "start"
    /\ windows' = create_time_windows(interactions, window_size)
    /\ pc' = "done"
    /\ UNCHANGED <<captureVars, logVars, groupVars, interactions, window_size, gapVars, scoreVars,
                   validatorVars, workflowVars>>

NextWindows == CreateTimeWindows

SpecWindows == InitWindows /\ [][NextWindows]_vars

\* ---- _find_interaction_gaps ----
InitGaps ==
    /\ pc = "start"
    /\ NoLog
    /\ NoGroup
    /\ interactions \in InteractionLists \cup {GapExample}
    /\ NoWindows
    /\ session_duration \in 0..MaxDuration \cup {GapExampleDuration}
    /\ gap_threshold \in 0..MaxThreshold \cup {DefaultGapThreshold}
    /\ gaps = <<>>
    /\ NoScore
    /\ NoValidator
    /\ NoWorkflow
    /\ NoCapture

FindInteractionGaps ==
    /\ pc = "start"
    /\ gaps' = find_interaction_gaps(interactions, session_duration, gap_threshold)
    /\ pc' = "done"
    /\ UNCHANGED <<captureVars, logVars, groupVars, interactions, windowVars,
                   session_duration, gap_threshold, scoreVars, validatorVars,
                   workflowVars>>

NextGaps == FindInteractionGaps

SpecGaps == InitGaps /\ [][NextGaps]_vars

\* ---- _assess_workflow_completeness ----
InitScore ==
    /\ pc = "start"
    /\ NoLog
    /\ NoGroup
    /\ NoWindows
    /\ NoGaps
    /\ \E n \in ScoredCounts, body \in TextBodies :
          /\ interactions = ScoredInteractions(n)
          /\ \E filler \in {0} \cup {expected_min_length(interactions) + offset - Len(body) :
                                       offset \in LengthOffsets} :
                rpa_commands = Text(body, filler)
    /\ completion_score = None
    /\ NoValidator
    /\ NoWorkflow
    /\ NoCapture

AssessWorkflowCompleteness ==
    /\ pc = "start"
    /\ completion_score' = Some(assess_workflow_completeness(rpa_commands, interactions))
    /\ pc' = "done"
    /\ UNCHANGED <<captureVars, logVars, groupVars, interactions, windowVars, gapVars, rpa_commands,
                   validatorVars, workflowVars>>

NextScore == AssessWorkflowCompleteness

SpecScore == InitScore /\ [][NextScore]_vars

\* ---- WorkflowValidator: one call of one check ----
InitValidator ==
    /\ pc = "start"
    /\ NoLog
    /\ NoGroup
    /\ interactions = <<>>
    /\ NoWindows
    /\ NoGaps
    /\ completion_score = None
    /\ \/ /\ video_file \in VideoFiles
          /\ json_file \in JsonFiles
          /\ rpa_commands = Text(<<>>, 0)
       \/ /\ video_file = GoodVideo
          /\ json_file = GoodJson
          /\ rpa_commands \in OutputTexts
    /\ validation = None
    /\ NoWorkflow
    /\ NoCapture

\* the check named by pc' has run; validation holds what it returned or raised
ValidatorCall(name, outcome) ==
    /\ pc = "start"
    /\ validation' = outcome
    /\ pc' = name
    /\ UNCHANGED <<captureVars, logVars, groupVars, interactions, windowVars, gapVars, scoreVars,
                   video_file, json_file, workflowVars>>

ValidateVideoFile == ValidatorCall("validate_video_file", validate_video_file(video_file))

ValidateJsonFile == ValidatorCall("validate_json_file", validate_json_file(json_file))

ValidateTimeSynchronization ==
    ValidatorCall("validate_time_synchronization",
                  validate_time_synchronization(video_file, json_file))

ValidateWorkflowOutput ==
    ValidatorCall("validate_workflow_output", validate_workflow_output(rpa_commands))

ValidateCompleteWorkflow ==
    \E commands \in {None, Some(rpa_commands)} :
        ValidatorCall("validate_complete_workflow",
                      validate_complete_workflow(video_file, json_file, commands))

\* print_validation_summary on the dictionary validate_complete_workflow returned
PrintValidationSummary ==
    /\ pc = "validate_complete_workflow"
    /\ validation.raised = NoException
    /\ returned' = Some(print_validation_summary(validation.results))
    /\ pc' = "print_validation_summary"
    /\ UNCHANGED <<captureVars, logVars, groupVars, interactions, windowVars, gapVars,
                   scoreVars, validatorVars, processor, validation_results,
                   api_requests, api_response, output_file>>

NextValidator ==
    \/ ValidateVideoFile
    \/ ValidateJsonFile
    \/ ValidateTimeSynchronization
    \/ ValidateWorkflowOutput
    \/ ValidateCompleteWorkflow
    \/ PrintValidationSummary

SpecValidator == InitValidator /\ [][NextValidator]_vars

\* ---- process_complete_workflow / process_enhanced_workflow ----
InitWorkflow ==
    /\ pc = "start"
    /\ NoCapture
    /\ NoLog
    /\ NoGroup
    /\ interactions = <<>>
    /\ NoWindows
    /\ NoGaps
    /\ NoScore
    /\ video_file \in WorkflowVideos
    /\ json_file \in WorkflowJsons
    /\ validation = None
    /\ processor \in {"process_complete_workflow", "process_enhanced_workflow",
                      "process_single_session"}
    /\ validation_results = None
    /\ api_requests = 0
    /\ api_response = None
    /\ output_file = None
    /\ returned = None

\* validate_complete_workflow(video_path, json_path); an exception of the
\* validator leaves the method
PreflightValidation ==
    /\ pc = "start"
    /\ processor # "process_single_session"
    /\ LET outcome == validate_complete_workflow(video_file, json_file, None)
       IN  IF outcome.raised # NoException
           THEN pc' = "raised" /\ UNCHANGED validation_results
           ELSE pc' = "validated" /\ validation_results' = Some(outcome.results)
    /\ UNCHANGED <<captureVars, logVars, groupVars, interactions, windowVars, gapVars, scoreVars,
                   validatorVars, processor, api_requests, api_response, output_file,
                   returned>>

\* process_single_session validates nothing: os.path.getsize raises for a
\* missing video, a video above MAX_FILE_SIZE_MB returns None, and
\* load_interaction_summary turns every exception into a summary text
StartSingleSession ==
    /\ pc = "start"
    /\ processor = "process_single_session"
    /\ pc' = IF ~video_file.exists THEN "raised"
             ELSE IF video_file.size_mb > MaxFileSizeMB THEN "done"
             ELSE "sized"
    /\ UNCHANGED <<captureVars, logVars, groupVars, interactions, windowVars, gapVars, scoreVars,
                   validatorVars, workflowVars>>

\* if has_errors: return None
BlockOnErrors ==
    /\ pc = "validated"
    /\ has_errors(validation_results[1])
    /\ pc' = "done"
    /\ UNCHANGED <<captureVars, logVars, groupVars, interactions, windowVars, gapVars, scoreVars,
                   validatorVars, workflowVars>>

\* the interactions of the log that passed the validation
ExtractInteractions ==
    /\ pc = "validated"
    /\ ~has_errors(validation_results[1])
    /\ interactions' =
           extract_enhanced_interactions(
               Get(json_file.data, "mouse_interactions", JList(<<>>)).value,
               Get(json_file.data, "keyboard_events", JList(<<>>)).value, <<>>)
    /\ pc' = "extracted"
    /\ UNCHANGED <<captureVars, logVars, groupVars, windowVars, gapVars, scoreVars, validatorVars,
                   workflowVars>>

\* if size_mb > MAX_FILE_SIZE_MB: return None
CheckVideoSize ==
    /\ pc = "extracted"
    /\ pc' = IF video_file.size_mb > MaxFileSizeMB THEN "done" ELSE "sized"
    /\ UNCHANGED <<captureVars, logVars, groupVars, interactions, windowVars, gapVars, scoreVars,
                   validatorVars, workflowVars>>

\* reading and encoding the video; an exception returns None
EncodeVideo ==
    /\ pc = "sized"
    /\ \E readable \in BOOLEAN : pc' = IF readable THEN "encoded" ELSE "done"
    /\ UNCHANGED <<captureVars, logVars, groupVars, interactions, windowVars, gapVars, scoreVars,
                   validatorVars, workflowVars>>

\* requests.post
SendRequest ==
    /\ pc = "encoded"
    /\ api_requests' = api_requests + 1
    /\ \E response \in ApiResponses : api_response' = Some(response)
    /\ pc' = "responded"
    /\ UNCHANGED <<captureVars, logVars, groupVars, interactions, windowVars, gapVars, scoreVars,
                   validatorVars, processor, validation_results, output_file, returned>>

\* an exception, a status other than 200 or a body without text parts: None
NoGeneratedText ==
    /\ pc = "responded"
    /\ ~HasTextParts(api_response[1])
    /\ pc' = "done"
    /\ UNCHANGED <<captureVars, logVars, groupVars, interactions, windowVars, gapVars, scoreVars,
                   validatorVars, workflowVars>>

\* process_complete_workflow: score the text; below PassScore return None,
\* else write the text and return it (an exception on writing returns None)
FinishCompleteWorkflow ==
    /\ pc = "responded"
    /\ processor = "process_complete_workflow"
    /\ HasTextParts(api_response[1])
    /\ LET text == Strip(api_response[1].text)
           score == assess_workflow_completeness(text, interactions)
       IN  /\ rpa_commands' = text
           /\ completion_score' = Some(score)
           /\ IF IsIncomplete(score.score)
              THEN UNCHANGED <<output_file, returned>>
              ELSE \E writable \in BOOLEAN :
                      IF writable
                      THEN output_file' = Some(text) /\ returned' = Some(text)
                      ELSE UNCHANGED <<output_file, returned>>
    /\ pc' = "done"
    /\ UNCHANGED <<captureVars, logVars, groupVars, interactions, windowVars, gapVars, validatorVars,
                   processor, validation_results, api_requests, api_response>>

\* process_enhanced_workflow: write the structured output, validate the
\* text, return it (an exception on writing returns None)
FinishEnhancedWorkflow ==
    /\ pc = "responded"
    /\ processor = "process_enhanced_workflow"
    /\ HasTextParts(api_response[1])
    /\ LET text == Strip(api_response[1].text)
       IN  /\ rpa_commands' = text
           /\ \E writable \in BOOLEAN :
                 IF writable
                 THEN /\ output_file' = Some(StructuredOutput(text))
                      /\ validation' = validate_workflow_output(text)
                      /\ returned' = Some(text)
                 ELSE UNCHANGED <<output_file, validation, returned>>
    /\ pc' = "done"
    /\ UNCHANGED <<captureVars, logVars, groupVars, interactions, windowVars, gapVars,
                   completion_score, video_file, json_file, processor,
                   validation_results, api_requests, api_response>>

\* process_single_session: write the headed text and return the text (an
\* exception on writing returns None)
FinishSingleSession ==
    /\ pc = "responded"
    /\ processor = "process_single_session"
    /\ HasTextParts(api_response[1])
    /\ LET text == Strip(api_response[1].text)
       IN  /\ rpa_commands' = text
           /\ \E writable \in BOOLEAN :
                 IF writable
                 THEN output_file' = Some(HeadedOutput(text)) /\ returned' = Some(text)
                 ELSE UNCHANGED <<output_file, returned>>
    /\ pc' = "done"
    /\ UNCHANGED <<captureVars, logVars, groupVars, interactions, windowVars, gapVars,
                   completion_score, validatorVars, processor, validation_results,
                   api_requests, api_response>>

NextWorkflow ==
    \/ PreflightValidation
    \/ StartSingleSession
    \/ BlockOnErrors
    \/ ExtractInteractions
    \/ CheckVideoSize
    \/ EncodeVideo
    \/ SendRequest
    \/ NoGeneratedText
    \/ FinishCompleteWorkflow
    \/ FinishEnhancedWorkflow
    \/ FinishSingleSession

SpecWorkflow == InitWorkflow /\ [][NextWorkflow]_vars

(***************************************************************************)
(* MultiScreenVideoRecorder: start_recording and stop_recording run on the *)
(* caller's thread (pc is its position); _video_loop and _audio_loop run   *)
(* on the threads start_recording creates.  A thread is                    *)
(*   "init"     before its barrier wait,                                   *)
(*   "failed"   returned before the barrier wait,                          *)
(*   "waiting"  inside sync_barrier.wait(timeout=5.0),                     *)
(*   "loop"     about to read the flag in `while self.recording`,          *)
(*   "capture"  inside the loop body, after it read the flag as True,      *)
(*   "exited"   returned after it read the flag as False.                  *)
(* A wait or a join that ends by its timeout is a step that may be taken   *)
(* whenever the wait or the join is pending: how long the other thread     *)
(* takes is not known to the code.                                         *)
(***************************************************************************)
\* threading.Barrier(parties)
Barrier(parties) == [parties |-> parties, waiting |-> {}, broken |-> FALSE]

\* threading.Thread(target=...), started in the session of barrier `session`
Thread(kind, session) == [kind |-> kind, session |-> session, state |-> "init"]

ThreadIds == 1..MaxThreads

Started(t) == t \in DOMAIN threads

\* not Thread.is_alive(): the target function has returned
Terminated(t) == threads[t].state \in {"failed", "exited"}

\* the thread has called sync_barrier.wait
Arrived(t) == threads[t].state \in {"waiting", "loop", "capture", "exited"}

\* the threads of `ts` leave their barrier wait and go on to the capture loop
EnterLoop(ts) ==
    [t \in DOMAIN threads |->
        IF t \in ts THEN [threads[t] EXCEPT !.state = "loop"] ELSE threads[t]]

InitRecorder ==
    /\ pc = "idle"
    /\ NoLog
    /\ NoGroup
    /\ interactions = <<>>
    /\ NoWindows
    /\ NoGaps
    /\ NoScore
    /\ NoValidator
    /\ NoWorkflow
    /\ NoMouseLogger
    /\ recording = FALSE
    /\ barriers = <<Barrier(2)>>
    /\ sync_barrier = 1
    /\ threads = <<>>
    /\ record_thread = None
    /\ audio_thread = None
    /\ frame_timestamps = 0
    /\ audio_frames = 0
    /\ joined = <<>>

otherVars ==
    <<logVars, groupVars, interactions, windowVars, gapVars, scoreVars,
      validatorVars, workflowVars>>

\* start_recording(output_path, fps, record_audio); with_audio is
\* AUDIO_AVAILABLE and record_audio
StartRecording(with_audio) ==
    /\ pc = "idle"
    /\ ~recording
    /\ Len(threads) + (IF with_audio THEN 2 ELSE 1) <= MaxThreads
    /\ recording' = TRUE
    /\ audio_frames' = 0
    /\ frame_timestamps' = 0
    /\ barriers' = Append(barriers, Barrier(IF with_audio THEN 2 ELSE 1))
    /\ sync_barrier' = Len(barriers) + 1
    /\ threads' = threads \o <<Thread("video", Len(barriers) + 1)>>
                     \o (IF with_audio THEN <<Thread("audio", Len(barriers) + 1)>>
                         ELSE <<>>)
    /\ record_thread' = Some(Len(threads) + 1)
    /\ audio_thread' = IF with_audio THEN Some(Len(threads) + 2) ELSE audio_thread
    /\ UNCHANGED <<pc, joined, mouseVars, otherVars>>

\* a capture thread returns before it reaches the barrier
InitFails(t) ==
    /\ Started(t)
    /\ threads[t].state = "init"
    /\ threads' = [threads EXCEPT ![t].state = "failed"]
    /\ UNCHANGED <<pc, recording, barriers, sync_barrier, record_thread, audio_thread,
                   frame_timestamps, audio_frames, joined, mouseVars, otherVars>>

\* self.sync_barrier.wait(timeout=5.0), the call
WaitAtBarrier(t) ==
    /\ Started(t)
    /\ threads[t].state = "init"
    /\ LET barrier == barriers[sync_barrier]
       IN  IF barrier.broken
           THEN /\ threads' = EnterLoop({t})
                /\ UNCHANGED barriers
           ELSE IF Cardinality(barrier.waiting) + 1 = barrier.parties
           THEN /\ threads' = EnterLoop(barrier.waiting \cup {t})
                /\ barriers' = [barriers EXCEPT ![sync_barrier].waiting = {}]
           ELSE /\ threads' = [threads EXCEPT ![t].state = "waiting"]
                /\ barriers' = [barriers EXCEPT ![sync_barrier].waiting = @ \cup {t}]
    /\ UNCHANGED <<pc, recording, sync_barrier, record_thread, audio_thread,
                   frame_timestamps, audio_frames, joined, mouseVars, otherVars>>

\* a barrier wait without a timeout: the thread stays in the wait
WaitWithoutTimeout(t) ==
    /\ Started(t)
    /\ threads[t].state = "waiting"
    /\ UNCHANGED vars

\* the wait of thread t ends by its timeout: the barrier breaks and every
\* thread waiting on it gets BrokenBarrierError, which both loops catch
BarrierTimeout(t) ==
    /\ Started(t)
    /\ threads[t].state = "waiting"
    /\ \E b \in DOMAIN barriers :
          /\ t \in barriers[b].waiting
          /\ threads' = EnterLoop(barriers[b].waiting)
          /\ barriers' = [barriers EXCEPT ![b].waiting = {}, ![b].broken = TRUE]
    /\ UNCHANGED <<pc, recording, sync_barrier, record_thread, audio_thread,
                   frame_timestamps, audio_frames, joined, mouseVars, otherVars>>

\* `while self.recording:`, one evaluation of the condition
CheckFlag(t) ==
    /\ Started(t)
    /\ threads[t].state = "loop"
    /\ threads' = [threads EXCEPT ![t].state = IF recording THEN "capture" ELSE "exited"]
    /\ UNCHANGED <<pc, recording, barriers, sync_barrier, record_thread, audio_thread,
                   frame_timestamps, audio_frames, joined, mouseVars, otherVars>>

\* one pass of the loop body: the frame or chunk is appended unless the
\* write or the read failed
Capture(t, success) ==
    /\ Started(t)
    /\ threads[t].state = "capture"
    /\ threads' = [threads EXCEPT ![t].state = "loop"]
    /\ IF success /\ threads[t].kind = "video"
       THEN /\ frame_timestamps < MaxFrames
            /\ frame_timestamps' = frame_timestamps + 1
            /\ UNCHANGED audio_frames
       ELSE IF success
       THEN /\ audio_frames < MaxFrames
            /\ audio_frames' = audio_frames + 1
            /\ UNCHANGED frame_timestamps
       ELSE UNCHANGED <<frame_timestamps, audio_frames>>
    /\ UNCHANGED <<pc, recording, barriers, sync_barrier, record_thread, audio_thread,
                   joined, mouseVars, otherVars>>

\* stop_recording, up to the first join
StopRecording ==
    /\ pc = "idle"
    /\ recording
    /\ recording' = FALSE
    /\ joined' = <<>>
    /\ pc' = "join_video"
    /\ UNCHANGED <<barriers, sync_barrier, threads, record_thread, audio_thread,
                   frame_timestamps, audio_frames, mouseVars, otherVars>>

\* a Thread.join that returns only when the thread has terminated
JoinWithoutTimeout(thread, timed_out) ==
    IF thread = None THEN joined' = joined
    ELSE /\ ~timed_out
         /\ Terminated(thread[1])
         /\ joined' = Append(joined, thread[1])

\* Thread.join(timeout) returns: the thread has terminated, or the timeout
\* has passed while it has not
JoinReturns(thread, timed_out) ==
    IF thread = None THEN joined' = joined
    ELSE /\ timed_out = ~Terminated(thread[1])
         /\ joined' = Append(joined, thread[1])

\* if self.record_thread: self.record_thread.join(timeout=5)
JoinRecordThread(timed_out) ==
    /\ pc = "join_video"
    /\ JoinReturns(record_thread, timed_out)
    /\ pc' = "join_audio"
    /\ UNCHANGED <<recording, barriers, sync_barrier, threads, record_thread,
                   audio_thread, frame_timestamps, audio_frames, mouseVars, otherVars>>

\* if self.audio_thread: self.audio_thread.join(timeout=3), then return
JoinAudioThread(timed_out) ==
    /\ pc = "join_audio"
    /\ JoinReturns(audio_thread, timed_out)
    /\ pc' = "idle"
    /\ UNCHANGED <<recording, barriers, sync_barrier, threads, record_thread,
                   audio_thread, frame_timestamps, audio_frames, mouseVars, otherVars>>

ThreadStep(t) ==
    \/ InitFails(t)
    \/ WaitAtBarrier(t)
    \/ BarrierTimeout(t)
    \/ CheckFlag(t)
    \/ \E success \in BOOLEAN : Capture(t, success)

NextRecorder ==
    \/ \E with_audio \in BOOLEAN : StartRecording(with_audio)
    \/ StopRecording
    \/ \E timed_out \in BOOLEAN : JoinRecordThread(timed_out)
    \/ \E timed_out \in BOOLEAN : JoinAudioThread(timed_out)
    \/ \E t \in ThreadIds : ThreadStep(t)

SpecRecorder == InitRecorder /\ [][NextRecorder]_vars

\* the timeouts of the barrier wait and of the joins pass
RecorderFairness ==
    /\ \A t \in ThreadIds : WF_vars(BarrierTimeout(t))
    /\ WF_vars(\E timed_out \in BOOLEAN : JoinRecordThread(timed_out))
    /\ WF_vars(\E timed_out \in BOOLEAN : JoinAudioThread(timed_out))

SpecRecorderLive == SpecRecorder /\ RecorderFairness

(***************************************************************************)
(* MultiScreenInteractionLogger: start_logging and stop_logging run on the *)
(* caller's thread (pc is its position), _mouse_loop on the thread that    *)
(* start_logging creates.  Of the entries of self.interactions the model   *)
(* keeps the types of the mouse_press and mouse_release entries; the user  *)
(* presses and releases the mouse button at any time.                      *)
(***************************************************************************)
InitMouse ==
    /\ pc = "idle"
    /\ NoLog
    /\ NoGroup
    /\ interactions = <<>>
    /\ NoWindows
    /\ NoGaps
    /\ NoScore
    /\ NoValidator
    /\ NoWorkflow
    /\ NoRecorder
    /\ logging = FALSE
    /\ click_state = FALSE
    /\ logged = <<>>
    /\ pressed_buttons = 0
    /\ mouse_threads = <<>>

\* start_logging
StartLogging ==
    /\ pc = "idle"
    /\ ~logging
    /\ Len(mouse_threads) < MaxSessions
    /\ logging' = TRUE
    /\ logged' = <<>>
    /\ mouse_threads' = Append(mouse_threads, "loop")
    /\ UNCHANGED <<pc, click_state, pressed_buttons, recorderVars, otherVars>>

\* the user presses or releases the mouse button
ButtonChanges ==
    /\ pressed_buttons' = 1 - pressed_buttons
    /\ UNCHANGED <<pc, logging, click_state, logged, mouse_threads, recorderVars,
                   otherVars>>

\* _check_for_clicks: the new click_state and the entry logged, if any
check_for_clicks(current_mouse_down, state) ==
    IF current_mouse_down > 0 /\ ~state
    THEN [click_state |-> TRUE, entry |-> Some("mouse_press")]
    ELSE IF current_mouse_down = 0 /\ state
    THEN [click_state |-> FALSE, entry |-> Some("mouse_release")]
    ELSE [click_state |-> state, entry |-> None]

\* _mouse_loop, one evaluation of `while self.logging` and one pass of the
\* body; position_known is current_pos != (0, 0)
MouseLoopPass(t, position_known) ==
    /\ t \in DOMAIN mouse_threads
    /\ mouse_threads[t] = "loop"
    /\ IF ~logging
       THEN /\ mouse_threads' = [mouse_threads EXCEPT ![t] = "exited"]
            /\ UNCHANGED <<click_state, logged>>
       ELSE /\ UNCHANGED mouse_threads
            /\ IF position_known
               THEN LET checked == check_for_clicks(pressed_buttons, click_state)
                    IN  /\ Len(logged) + Len(checked.entry) <= MaxLogged
                        /\ click_state' = checked.click_state
                        /\ logged' = logged \o checked.entry
               ELSE UNCHANGED <<click_state, logged>>
    /\ UNCHANGED <<pc, logging, pressed_buttons, recorderVars, otherVars>>

\* stop_logging, up to the join
StopLogging ==
    /\ pc = "idle"
    /\ logging
    /\ logging' = FALSE
    /\ pc' = "join_mouse"
    /\ UNCHANGED <<click_state, logged, pressed_buttons, mouse_threads, recorderVars,
                   otherVars>>

\* self.mouse_thread.join(timeout=3) returns, then stop_logging returns
JoinMouseThread(timed_out) ==
    /\ pc = "join_mouse"
    /\ timed_out = (mouse_threads[Len(mouse_threads)] # "exited")
    /\ pc' = "idle"
    /\ UNCHANGED <<mouseVars, recorderVars, otherVars>>

NextMouse ==
    \/ StartLogging
    \/ ButtonChanges
    \/ \E t \in 1..MaxSessions, position_known \in BOOLEAN :
          MouseLoopPass(t, position_known)
    \/ StopLogging
    \/ \E timed_out \in BOOLEAN : JoinMouseThread(timed_out)

SpecMouse == InitMouse /\ [][NextMouse]_vars

(***************************************************************************)
(* Properties of _create_time_windows, checked under SpecWindows.          *)
(***************************************************************************)
RECURSIVE ConcatWindows(_)
\* the windows' interaction lists, concatenated in window order
ConcatWindows(ws) ==
    IF ws = <<>> THEN <<>>
    ELSE ConcatWindows(SubSeq(ws, 1, Len(ws) - 1)) \o ws[Len(ws)].interactions

\* C1: the windows partition the input list: their interaction lists,
\* concatenated in window order, are the input list, and no window is empty.
C1_WindowsPartition ==
    pc = "done" =>
        /\ ConcatWindows(windows) = interactions
        /\ \A j \in DOMAIN windows : windows[j].interactions # <<>>

\* a list of three interactions split into a window of two and a window of one
C1_Witness ==
    /\ pc = "done"
    /\ Len(interactions) = 3
    /\ Len(windows) = 2
    /\ Len(windows[1].interactions) = 2

\* index of the window that holds the i-th input interaction
WindowOf(ws, i) ==
    CHOOSE j \in DOMAIN ws :
        /\ Len(ConcatWindows(SubSeq(ws, 1, j - 1))) < i
        /\ i <= Len(ConcatWindows(SubSeq(ws, 1, j)))

\* C2: consecutive interactions share a window iff their timestamps differ by
\* at most window_size, otherwise the later one opens the next window; every
\* window starts at its first and ends at its last interaction's timestamp;
\* timestamps 0, 1, 10, 10.5 s with window_size 2 s give the windows {0, 1}
\* and {10, 10.5}.
C2_WindowBoundaries ==
    (pc = "done" /\ interactions # <<>>) =>
        /\ \A i \in 1..(Len(interactions) - 1) :
              /\ (WindowOf(windows, i + 1) = WindowOf(windows, i))
                    <=> (interactions[i + 1].timestamp - interactions[i].timestamp
                            <= window_size)
              /\ WindowOf(windows, i + 1) \in
                    {WindowOf(windows, i), WindowOf(windows, i) + 1}
        /\ \A j \in DOMAIN windows :
              LET w == windows[j]
              IN  /\ w.start = w.interactions[1].timestamp
                  /\ w.end = w.interactions[Len(w.interactions)].timestamp
        /\ (interactions = WindowExample /\ window_size = DefaultWindowSize) =>
              windows = <<TimeWindow(0, 2, <<ClickAt(0), ClickAt(2)>>),
                          TimeWindow(20, 21, <<ClickAt(20), ClickAt(21)>>)>>

\* a gap exactly equal to window_size kept in one window, next to a split
C2_Witness ==
    /\ pc = "done"
    /\ window_size > 0
    /\ Len(windows) = 2
    /\ \E i \in 1..(Len(interactions) - 1) :
          /\ interactions[i + 1].timestamp - interactions[i].timestamp = window_size
          /\ WindowOf(windows, i + 1) = WindowOf(windows, i)

(***************************************************************************)
(* Properties of extract_enhanced_interactions, checked under SpecExtract. *)
(***************************************************************************)
\* the interactions of list s stamped t, in the order of s
AtTime(s, t) ==
    LET Stamped(x) == x.timestamp = t
    IN  SelectSeq(s, Stamped)

LogTimes ==
    {mouse_interactions[i].timestamp : i \in DOMAIN mouse_interactions}
    \cup {keyboard_events[i].timestamp : i \in DOMAIN keyboard_events}
    \cup {app_switches[i].timestamp : i \in DOMAIN app_switches}

\* C3 as stated: among interactions of equal timestamp the clicks come first,
\* then the typed texts, then the app switches, each kind in event-log order.
C3_ClickTypeNavigate ==
    pc = "done" =>
        \A t \in LogTimes :
            AtTime(interactions, t) =
                AtTime(Clicks(mouse_interactions), t)
                    \o AtTime(TypeInteractions(group_text_sequences(keyboard_events)), t)
                    \o AtTime(NavigateInteractions(app_switches), t)

\* C3 (amended): among interactions of equal timestamp the typed texts come
\* first, then the clicks, then the app switches, each kind in event-log order.
C3_TypeClickNavigate ==
    pc = "done" =>
        \A t \in LogTimes :
            AtTime(interactions, t) =
                AtTime(TypeInteractions(group_text_sequences(keyboard_events)), t)
                    \o AtTime(Clicks(mouse_interactions), t)
                    \o AtTime(NavigateInteractions(app_switches), t)

\* a click, a typed text and an app switch with one and the same timestamp
C3_Witness ==
    /\ pc = "done"
    /\ Len(interactions) = 3
    /\ interactions[1].timestamp = interactions[3].timestamp
    /\ {interactions[i].action_type : i \in 1..3} = {"click", "type", "navigate"}

\* C4: the returned list is sorted ascending by timestamp.
C4_SortedByTimestamp ==
    pc = "done" =>
        \A i \in 1..(Len(interactions) - 1) :
            interactions[i].timestamp <= interactions[i + 1].timestamp

\* the interactions were built out of timestamp order and have been sorted
C4_Witness ==
    /\ pc = "done"
    /\ Len(interactions) = 3
    /\ \E i \in 1..2 :
          LET built == UnsortedInteractions(mouse_interactions, keyboard_events,
                                            app_switches)
          IN  built[i].timestamp > built[i + 1].timestamp

\* what an interaction carries, by kind
Carried(x) ==
    CASE x.action_type = "click" -> <<"click", x.timestamp, x.coordinates>>
      [] x.action_type = "type" ->
            <<"type", x.timestamp, x.text_content, x.ui_context>>
      [] OTHER -> <<x.action_type, x.timestamp, x.description, x.coordinates,
                    x.text_content>>

Count(s, v) == Cardinality({i \in DOMAIN s : s[i] = v})

LeftPresses ==
    LET Left(e) == e.type = "mouse_press" /\ e.button = Some("left")
    IN  SelectSeq(mouse_interactions, Left)

\* the grouper's sequences whose text is not empty
TextSequences ==
    LET NonEmpty(seq) == seq.text # <<>>
    IN  SelectSeq(group_text_sequences(keyboard_events), NonEmpty)

\* the interactions C5 expects, each as what it carries
ExpectedCarried ==
    LET OfPress(e) == <<"click", e.timestamp, Some(<<e.position.x, e.position.y>>)>>
        OfText(seq) ==
            <<"type", seq.timestamp[1], Some(seq.text), Some(seq.end_action)>>
        OfSwitch(sw) ==
            <<"navigate", sw.timestamp,
              <<"Switch from", sw.from_app, "to", sw.to_app>>, None, None>>
    IN  MapSeq(LeftPresses, OfPress)
            \o MapSeq(TextSequences, OfText)
            \o MapSeq(app_switches, OfSwitch)

\* C5: N left presses, M sequences of non-empty text and K app switches give
\* exactly N + M + K interactions: one click with the press's (x, y) per left
\* press, one type with ui_context = end_action per sequence, one navigate per
\* app switch, and nothing for any other event.
C5_OneInteractionPerEvent ==
    pc = "done" =>
        LET carried == MapSeq(interactions, Carried)
        IN  /\ Len(interactions) =
                  Len(LeftPresses) + Len(TextSequences) + Len(app_switches)
            /\ \A i \in DOMAIN carried :
                  Count(carried, carried[i]) = Count(ExpectedCarried, carried[i])
            /\ \A k \in DOMAIN ExpectedCarried :
                  Count(carried, ExpectedCarried[k])
                      = Count(ExpectedCarried, ExpectedCarried[k])

\* a left press next to a mouse event that is none, and a delete on empty text
C5_Witness ==
    /\ pc = "done"
    /\ Len(interactions) = 1
    /\ Len(LeftPresses) = 1
    /\ Len(mouse_interactions) = 2
    /\ \E i \in DOMAIN keyboard_events : keyboard_events[i].key_name = "BackSpace"

(***************************************************************************)
(* Properties of _group_text_sequences, checked under SpecGroup.           *)
(***************************************************************************)
\* the event the next loop iteration consumes
NextEvent == keyboard_events[event_index + 1]

\* a step of the loop that consumes a key_press event named one of names
Consumes(names) ==
    /\ pc = "loop"
    /\ event_index < Len(keyboard_events)
    /\ event_index' = event_index + 1
    /\ NextEvent.type = "key_press"
    /\ NextEvent.key_name \in names

EndActionOf(key_name) == IF key_name = "Tab" THEN "tab" ELSE "enter"

KeyNames(events) == [i \in DOMAIN events |-> events[i].key_name]

\* C6 as stated: every key_press named Return, Enter or Tab, whatever its
\* is_character flag, emits the accumulator as one sequence with end_action
\* enter (tab) if it is not blank, emits nothing otherwise, and resets the
\* accumulator and its start; two characters and Return give one sequence.
C6_TerminatorEndsSequence ==
    [][/\ Consumes({"Return", "Enter", "Tab"}) =>
            /\ sequences' =
                  IF StripNonEmpty(current_text)
                  THEN Append(sequences,
                              TextSequence(sequence_start, current_text,
                                           EndActionOf(NextEvent.key_name)))
                  ELSE sequences
            /\ current_text' = <<>>
            /\ sequence_start' = None
       /\ (pc' = "done" /\ KeyNames(keyboard_events) = <<"a", "a", "Return">>) =>
            sequences' = <<TextSequence(Some(1), <<"a", "a">>, "enter")>>
      ]_vars

\* C7 as stated: every key_press named Delete or Backspace removes the last
\* character of a non-empty accumulator and emits nothing, and on an empty
\* accumulator emits one empty-text delete sequence stamped with the event.
C7_DeleteKey ==
    [][Consumes({"Delete", "Backspace"}) =>
            IF current_text # <<>>
            THEN /\ current_text' = SubSeq(current_text, 1, Len(current_text) - 1)
                 /\ sequences' = sequences
            ELSE /\ current_text' = <<>>
                 /\ sequences' =
                       Append(sequences,
                              TextSequence(Some(NextEvent.timestamp), <<>>, "delete"))
      ]_vars

\* number of characters in the accumulator after the first n events
AccumulatedAfter(n) == Len(GroupLoop(keyboard_events, n).current_text)

\* timestamp of the event that put the first character into the accumulator
\* as it is at the end of the stream
AccumulationStart ==
    LET starts == {k \in DOMAIN keyboard_events :
                      AccumulatedAfter(k - 1) = 0 /\ AccumulatedAfter(k) = 1}
        last == CHOOSE k \in starts : \A j \in starts : j <= k
    IN  keyboard_events[last].timestamp

PlainCharacter(event) ==
    /\ event.type = "key_press"
    /\ event.is_character
    /\ event.key_name \in Characters \ Whitespace

\* C8: at the end of the stream one sequence with end_action incomplete is
\* emitted iff the accumulator is not blank; its text is the accumulator and
\* its timestamp that of the first character of this accumulation.  A stream
\* of n >= 1 non-whitespace characters gives exactly that one sequence.
C8_RemainingTextIncomplete ==
    [][(pc = "loop" /\ pc' = "done") =>
            /\ sequences' =
                  IF StripNonEmpty(current_text)
                  THEN Append(sequences,
                              TextSequence(Some(AccumulationStart), current_text,
                                           "incomplete"))
                  ELSE sequences
            /\ (/\ keyboard_events # <<>>
                /\ \A i \in DOMAIN keyboard_events : PlainCharacter(keyboard_events[i]))
                  => sequences' =
                        <<TextSequence(Some(keyboard_events[1].timestamp),
                                       KeyNames(keyboard_events), "incomplete")>>
      ]_vars

\* a text ended by Return, then a second accumulation left incomplete
C8_Witness ==
    /\ pc = "done"
    /\ Len(sequences) = 2
    /\ sequences[1].end_action = "enter"
    /\ sequences[2].end_action = "incomplete"
    /\ sequences[2].timestamp = Some(3)

RemoveAt(s, i) == SubSeq(s, 1, i - 1) \o SubSeq(s, i + 1, Len(s))

\* C9: a key event with is_character false that is named none of Return,
\* Enter, Tab, Delete, Backspace changes nothing: the sequences of a stream
\* are those of the stream without that event.
C9_OtherKeyIgnored ==
    pc = "done" =>
        \A i \in DOMAIN keyboard_events :
            (/\ ~keyboard_events[i].is_character
             /\ keyboard_events[i].key_name
                   \notin {"Return", "Enter", "Tab", "Delete", "Backspace"})
                => sequences = group_text_sequences(RemoveAt(keyboard_events, i))

\* a Shift key between two characters of one sequence
C9_Witness ==
    /\ pc = "done"
    /\ Len(keyboard_events) = 3
    /\ keyboard_events[2].key_name = "Shift"
    /\ ~keyboard_events[2].is_character
    /\ Len(sequences) = 1
    /\ Len(sequences[1].text) = 2

(***************************************************************************)
(* Properties of _find_interaction_gaps, checked under SpecGaps.           *)
(***************************************************************************)
\* the timestamps of the interactions in ascending order
AscendingTimestamps ==
    LET ts == MapSeq(interactions, LAMBDA x : x.timestamp)
    IN  CHOOSE s \in [DOMAIN ts -> Range(ts)] :
            /\ \A i \in 1..(Len(s) - 1) : s[i] <= s[i + 1]
            /\ \A v \in Range(ts) : Count(s, v) = Count(ts, v)

\* the gaps C10 lists: leading, between consecutive timestamps, trailing
ExpectedGaps ==
    LET s == AscendingTimestamps
        first == s[1]
        last == s[Len(s)]
        Long(g) == g.duration > gap_threshold
        between == [i \in 1..(Len(s) - 1) |-> Gap(s[i], s[i + 1], s[i + 1] - s[i])]
    IN  SelectSeq(<<Gap(0, first, first)>>, Long)
            \o SelectSeq(between, Long)
            \o SelectSeq(<<Gap(last, session_duration, session_duration - last)>>, Long)

\* C10: for a non-empty list the result is, in this order and nothing else,
\* the leading gap {0, first, first} iff first > threshold, the gap
\* {cur, next, next - cur} of each consecutive pair in timestamp order iff
\* next - cur > threshold, and the trailing gap {last, d, d - last} iff
\* d - last > threshold.  Timestamps 0 and 20 s, d = 20 s, threshold 5 s give
\* exactly the gap {0, 20, 20}.
C10_GapsOfNonEmptyList ==
    (pc = "done" /\ interactions # <<>>) =>
        /\ gaps = ExpectedGaps
        /\ (/\ interactions = GapExample
            /\ session_duration = GapExampleDuration
            /\ gap_threshold = DefaultGapThreshold)
              => gaps = <<Gap(0, 40, 40)>>

\* a leading, an interior and a trailing gap of a list given out of order
C10_Witness ==
    /\ pc = "done"
    /\ Len(interactions) = 2
    /\ interactions[1].timestamp > interactions[2].timestamp
    /\ Len(gaps) = 3
    /\ gaps[1].start = 0
    /\ gaps[3].end = session_duration

\* C11 as stated: every returned gap, for every input (empty or not), every
\* session_duration and every gap_threshold, has a duration strictly greater
\* than gap_threshold.
C11_EveryGapExceedsThreshold ==
    pc = "done" => \A i \in DOMAIN gaps : gaps[i].duration > gap_threshold

\* C11 amended: for a non-empty interaction list every returned gap has a
\* duration strictly greater than gap_threshold, so a span whose length is
\* equal to or below the threshold never produces a gap; the single gap of an
\* empty list is returned whatever the threshold.
C11_GapOfNonEmptyListExceedsThreshold ==
    (pc = "done" /\ interactions # <<>>) =>
        \A i \in DOMAIN gaps : gaps[i].duration > gap_threshold

\* a trailing span exactly as long as a positive threshold is not reported,
\* while a longer leading span is
C11_Witness ==
    /\ pc = "done"
    /\ Len(interactions) = 1
    /\ gap_threshold > 0
    /\ session_duration - interactions[1].timestamp = gap_threshold
    /\ interactions[1].timestamp > gap_threshold
    /\ Len(gaps) = 1

\* C12: for an empty interaction list the result is exactly the one gap
\* {start 0, end d, duration d}, for every session_duration d and every
\* gap_threshold.
C12_EmptyListOneGap ==
    (pc = "done" /\ interactions = <<>>) =>
        gaps = <<Gap(0, session_duration, session_duration)>>

\* an empty list with a session no longer than the threshold
C12_Witness ==
    /\ pc = "done"
    /\ interactions = <<>>
    /\ session_duration > 0
    /\ session_duration <= gap_threshold
    /\ Len(gaps) = 1

\* the orders in which the caller can hand over the same interactions
Reorderings(list) ==
    LET n == Len(list)
        bijections == {f \in [1..n -> 1..n] : \A i, j \in 1..n : f[i] = f[j] => i = j}
    IN  {[i \in 1..n |-> list[f[i]]] : f \in bijections}

\* C13: the call returns the same list of gaps for every permutation of the
\* interaction list (same session_duration and gap_threshold), and leaves the
\* caller's list in its original order.
C13_PermutationInvariant ==
    [][(pc = "start" /\ pc' = "done") =>
          /\ interactions' = interactions
          /\ \A list \in Reorderings(interactions) :
                 find_interaction_gaps(list, session_duration, gap_threshold) = gaps']_vars

\* three interactions handed over in descending order, with a gap found
C13_Witness ==
    /\ pc = "done"
    /\ Len(interactions) = 3
    /\ interactions[1].timestamp > interactions[2].timestamp
    /\ interactions[2].timestamp > interactions[3].timestamp
    /\ gaps # <<>>

\* 1 for a criterion that holds, 0 for one that does not
Bit(flag) == IF flag THEN 1 ELSE 0

\* C14: score = 2*has_login + 2*has_completion + 2*adequate_length
\* + 2*has_murex_patterns + 1*numbered_steps + 1*headers, an integer of 0..10;
\* has_murex_patterns holds iff murex_pattern_count >= 3, with the count in
\* 0..8; has_structured_format = numbered_steps AND headers, the two being
\* scored independently.
C14_ScoreFormula ==
    pc = "done" =>
        LET result == completion_score[1]
            numbered_steps ==
                Contains(rpa_commands, <<"1", ".">>) /\ Contains(rpa_commands, <<"2", ".">>)
            headers == Contains(rpa_commands, <<"*", "*">>)
        IN  /\ result.score = 2 * Bit(result.has_login) + 2 * Bit(result.has_completion)
                                + 2 * Bit(result.adequate_length)
                                + 2 * Bit(result.has_murex_patterns)
                                + Bit(numbered_steps) + Bit(headers)
            /\ result.score \in 0..10
            /\ result.has_murex_patterns <=> result.murex_pattern_count >= 3
            /\ result.murex_pattern_count \in 0..8
            /\ result.has_structured_format <=> (numbered_steps /\ headers)

\* exactly three Murex phrases, and numbered steps scored without headers
C14_Witness ==
    /\ pc = "done"
    /\ completion_score[1].murex_pattern_count = 3
    /\ completion_score[1].has_murex_patterns
    /\ has_numbered_steps(rpa_commands)
    /\ ~has_descriptive_headers(rpa_commands)
    /\ ~completion_score[1].has_structured_format
    /\ completion_score[1].score = 9

WithLoginKeyword(text) ==
    {Text(text.body \o word, text.filler) : word \in login_words}
        \cup {Text(text.body \o word, text.filler - Len(word)) :
                 word \in {w \in login_words : Len(w) <= text.filler}}

\* the two results agree on every criterion but has_login
SameOtherCriteria(first, second, first_text, second_text) ==
    /\ first.has_completion = second.has_completion
    /\ first.adequate_length = second.adequate_length
    /\ first.has_murex_patterns = second.has_murex_patterns
    /\ has_numbered_steps(first_text) = has_numbered_steps(second_text)
    /\ has_descriptive_headers(first_text) = has_descriptive_headers(second_text)

\* C16: for two inputs that differ only in that the second text contains a
\* login keyword and the first contains none, every other criterion being
\* equal, the second score is exactly the first score plus 2.
C16_LoginAddsTwo ==
    (pc = "done" /\ ~completion_score[1].has_login) =>
        \A second_text \in WithLoginKeyword(rpa_commands) :
            LET first == completion_score[1]
                second == assess_workflow_completeness(second_text, interactions)
            IN  (second.has_login
                   /\ SameOtherCriteria(first, second, rpa_commands, second_text))
                  => second.score = first.score + 2

\* a text without login keyword that meets every other criterion, and a text
\* with the keyword 'password' added that meets the same
C16_Witness ==
    /\ pc = "done"
    /\ ~completion_score[1].has_login
    /\ completion_score[1].score = 8
    /\ LET second_text == Text(rpa_commands.body \o <<"p", "a", "s", "s", "w", "o", "r", "d">>,
                               rpa_commands.filler)
           second == assess_workflow_completeness(second_text, interactions)
       IN  /\ second.has_login
           /\ SameOtherCriteria(completion_score[1], second, rpa_commands, second_text)
           /\ second.score = 10

\* C18: no validator check raises: for every input (a missing file, an
\* unparsable JSON file, a JSON file that parses but is no object of the
\* expected shape) each check returns its results, and all invalidity is
\* reported as data.
C18_NoValidatorRaises ==
    pc # "start" => validation.raised = NoException

Severities(results) == {results[i].severity : i \in DOMAIN results}

\* the JSON file parses to an object without 'mouse_interactions' and
\* without 'keyboard_events'
LacksBothKeys ==
    /\ json_file.exists
    /\ json_file.content = "parsed"
    /\ json_file.data.kind = "object"
    /\ \A i \in DOMAIN required_keys : ~HasKey(json_file.data, required_keys[i])

\* C19: for every existing, parsable JSON object that lacks both
\* 'mouse_interactions' and 'keyboard_events', validate_json_file returns at
\* least one result of severity 'error' and none of severity 'info', whatever
\* the other keys (session_info, duration) contain.
C19_MissingKeysAreErrors ==
    (pc = "validate_json_file" /\ LacksBothKeys) =>
        /\ validation.raised = NoException
        /\ "error" \in Severities(validation.results)
        /\ "info" \notin Severities(validation.results)

\* C17: process_complete_workflow writes the output file and returns the
\* generated text only when the completeness score of that text is >= 6;
\* whenever the score is < 6 it returns None and writes no output file, for
\* every API response.
C17_OutputOnlyWhenComplete ==
    processor = "process_complete_workflow" =>
        /\ (output_file # None \/ returned # None) =>
              /\ completion_score # None
              /\ completion_score[1] = assess_workflow_completeness(rpa_commands, interactions)
              /\ completion_score[1].score >= 6
              /\ output_file = Some(rpa_commands)
              /\ returned = Some(rpa_commands)
        /\ (pc = "done" /\ completion_score # None /\ completion_score[1].score < 6) =>
              output_file = None /\ returned = None

\* a text of score exactly 6 is written and returned
C17_Witness ==
    /\ pc = "done"
    /\ processor = "process_complete_workflow"
    /\ completion_score # None
    /\ completion_score[1].score = 6
    /\ output_file = Some(rpa_commands)
    /\ returned = Some(rpa_commands)

\* the severities among the results of the pre-flight validation
PreflightSeverities ==
    UNION {Severities(validation_results[1][category]) :
              category \in {"video", "json", "synchronization"}}

\* nothing was extracted, requested, written or returned
NothingDone ==
    /\ pc \in {"validated", "done"}
    /\ interactions = <<>>
    /\ api_requests = 0
    /\ api_response = None
    /\ output_file = None
    /\ returned = None

\* C20: if validate_complete_workflow returns a result of severity 'error' in
\* any category, process_enhanced_workflow and process_complete_workflow
\* return None before extracting interactions, sending a request or writing
\* a file; results of severity 'warning' or 'info' alone never block; and the
\* post-hoc validation of process_enhanced_workflow never blocks: whatever
\* validate_workflow_output reports, the file is written and the text returned.
C20_PreflightErrorsBlock ==
    [][/\ (validation_results' # None /\ "error" \in PreflightSeverities') => NothingDone'
       /\ (pc = "validated" /\ "error" \in PreflightSeverities) =>
             pc' = "done" /\ returned' = None
       /\ (pc = "validated" /\ "error" \notin PreflightSeverities) => pc' = "extracted"
       /\ (processor = "process_enhanced_workflow" /\ validation' # None) =>
             /\ validation' = validate_workflow_output(rpa_commands')
             /\ output_file' = Some(StructuredOutput(rpa_commands'))
             /\ returned' = Some(rpa_commands')]_vars

\* a pre-flight validation with a warning and no error did not block, and a
\* blank text that the post-hoc validation reports as an error was written
\* and returned
C20_Witness ==
    /\ pc = "done"
    /\ processor = "process_enhanced_workflow"
    /\ "warning" \in PreflightSeverities
    /\ "error" \notin PreflightSeverities
    /\ validation # None
    /\ "error" \in Severities(validation.results)
    /\ output_file # None
    /\ returned = Some(Text(<<>>, 0))

\* the request failed: a timeout or transport error, or a status other than 200
RequestFailed(response) == response.raised \/ response.status_code # 200

\* C21: each invocation of process_single_session, process_enhanced_workflow
\* or process_complete_workflow sends at most one generation request; on a
\* timeout, a transport error or a non-200 response it does not retry, returns
\* None and writes no output file.
C21_OneRequestNoRetry ==
    [][/\ api_requests' <= 1
       /\ (pc = "responded" /\ RequestFailed(api_response[1])) =>
             /\ pc' = "done"
             /\ api_requests' = 1
             /\ returned' = None
             /\ output_file' = None]_vars

\* process_single_session has returned None after one request that timed out
C21_Witness ==
    /\ pc = "done"
    /\ processor = "process_single_session"
    /\ api_requests = 1
    /\ api_response # None
    /\ api_response[1].raised
    /\ returned = None
    /\ output_file = None

(***************************************************************************)
(* Properties of the video recorder's threads, checked under SpecRecorder  *)
(* and SpecRecorderLive.                                                   *)
(***************************************************************************)
\* the threads started by the same start_recording call as thread t
Peers(t) == {u \in DOMAIN threads : threads[u].session = threads[t].session}

\* this step is thread t appending a frame or an audio chunk
Appends(t) ==
    /\ threads[t].state = "capture"
    /\ threads'[t].state = "loop"
    /\ (frame_timestamps' > frame_timestamps \/ audio_frames' > audio_frames)

\* C22: when recording is started with audio, no frame and no audio chunk is
\* appended before both threads of that recording have arrived at the sync
\* barrier.
C22_NoSampleBeforeRendezvous ==
    [][\A t \in DOMAIN threads :
          (barriers[threads[t].session].parties = 2 /\ Appends(t)) =>
              \A u \in Peers(t) : Arrived(u)]_vars

\* one step of stop_recording, as the claim describes it
CooperativeStop ==
    /\ (pc = "idle" /\ pc' # "idle") => (pc' = "join_video" /\ ~recording')
    /\ pc # "idle" => ~recording /\ ~recording'
    /\ (pc = "join_video" /\ pc' # pc) =>
          (pc' = "join_audio" /\ joined' = joined \o record_thread)
    /\ (pc = "join_audio" /\ pc' # pc) =>
          (pc' = "idle" /\ joined' = joined \o audio_thread)
    /\ \A t \in DOMAIN threads :
          (threads[t].state = "loop" /\ ~recording /\ threads'[t] # threads[t]) =>
              threads'[t].state = "exited"

\* C23: stop_recording clears the flag before it joins, joins each thread
\* once (record_thread, then audio_thread) and never again, and returns
\* whether or not the threads have exited; a capture loop that reads the
\* cleared flag returns.
C23_ShutdownTerminates ==
    /\ [][CooperativeStop]_vars
    /\ [](pc = "idle" /\ ~recording => joined = record_thread \o audio_thread)
    /\ (pc # "idle") ~> (pc = "idle")

\* stop_recording has returned, one joined thread has read the cleared flag
\* and exited, another has not exited and is abandoned
C23_Witness ==
    /\ pc = "idle"
    /\ ~recording
    /\ Len(joined) = 2
    /\ threads[joined[1]].state = "capture"
    /\ threads[joined[2]].state = "exited"

\* this step is thread t reading the recording flag as True and going on
\* with its capture loop
ReadsFlagSet(t) == threads[t].state = "loop" /\ threads'[t].state = "capture"

\* C27: only the threads of the latest start_recording go on capturing: a
\* thread of an earlier recording never reads the flag as True again after
\* a later start_recording has set it.
C27_AbandonedThreadStaysStopped ==
    [][\A t \in DOMAIN threads :
          ReadsFlagSet(t) => threads[t].session = sync_barrier]_vars

\* a thread leaves its barrier wait only for the capture loop, and a thread
\* that reads the flag while it is set goes on to capture
EntersLoopAfterWait ==
    \A t \in DOMAIN threads :
        /\ (threads[t].state = "waiting" /\ threads'[t] # threads[t]) =>
              threads'[t].state = "loop"
        /\ (threads[t].state = "loop" /\ recording /\ threads'[t] # threads[t]) =>
              threads'[t].state = "capture"

\* C29: no thread stays in its barrier wait for ever, whether or not the
\* other thread arrives: again and again no thread is waiting, and a thread
\* that leaves the wait goes on to its capture loop, where it captures when
\* it reads the recording flag as set.
C29_BarrierNeverDeadlocks ==
    /\ [][EntersLoopAfterWait]_vars
    /\ []<>(\A t \in DOMAIN threads : threads[t].state # "waiting")

\* a thread captures although the other thread of its recording returned
\* before the barrier: its wait ended by the timeout
C29_Witness ==
    \E t \in DOMAIN threads :
        /\ threads[t].state = "capture"
        /\ recording
        /\ threads[t].session = sync_barrier
        /\ barriers[sync_barrier].parties = 2
        /\ barriers[sync_barrier].broken
        /\ \E u \in Peers(t) : threads[u].state = "failed"

(***************************************************************************)
(* Properties of the mouse log, checked under SpecMouse.                   *)
(***************************************************************************)
\* C28: in the mouse log of every logging session the press and release
\* entries alternate and the first of them is a mouse_press.
C28_PressAndReleaseAlternate ==
    \A i \in DOMAIN logged :
        logged[i] = IF i % 2 = 1 THEN "mouse_press" ELSE "mouse_release"

(***************************************************************************)
(* Further properties of extract_enhanced_interactions, checked under      *)
(* SpecExtract.                                                            *)
(***************************************************************************)
\* C24: every returned interaction has exactly one of coordinates and
\* text_content populated.
C24_ExactlyOneOfCoordinatesAndText ==
    pc = "done" =>
        \A i \in DOMAIN interactions :
            (interactions[i].coordinates # None) # (interactions[i].text_content # None)

\* no two keyboard events of the log carry the same timestamp
DistinctKeyTimestamps ==
    \A i, j \in DOMAIN keyboard_events :
        keyboard_events[i].timestamp = keyboard_events[j].timestamp => i = j

\* C25: whatever the order in which keyboard events of distinct timestamps
\* were appended, the returned list is the one obtained from the keyboard
\* events in timestamp order.
C25_KeyboardEventsResorted ==
    (pc = "done" /\ DistinctKeyTimestamps) =>
        interactions = extract_enhanced_interactions(
                           mouse_interactions, SortByTimestamp(keyboard_events),
                           app_switches)

(***************************************************************************)
(* Separation of adjacent windows, checked under SpecWindows.              *)
(***************************************************************************)
SortedByTimestamp(list) ==
    \A i \in 1..(Len(list) - 1) : list[i].timestamp <= list[i + 1].timestamp

\* some window ends at the timestamp at which the next one starts
IdenticalBoundaries(ws) == \E i \in 1..(Len(ws) - 1) : ws[i].end = ws[i + 1].start

\* every window starts at its first and ends at its last interaction's
\* timestamp, and start <= end
BoundedByMembers(ws) ==
    \A j \in DOMAIN ws :
        /\ ws[j].start <= ws[j].end
        /\ ws[j].start = ws[j].interactions[1].timestamp
        /\ ws[j].end = ws[j].interactions[Len(ws[j].interactions)].timestamp

\* C26 as stated: some timestamp-sorted list and some window_size >= 0 give
\* two adjacent windows with identical boundary timestamps, while every
\* window of a sorted list is bounded by its first and last interaction.
C26_IdenticalBoundariesPossible ==
    /\ \E list \in InteractionLists, size \in 0..MaxWindow :
          SortedByTimestamp(list) /\ IdenticalBoundaries(create_time_windows(list, size))
    /\ (pc = "done" /\ SortedByTimestamp(interactions)) => BoundedByMembers(windows)

\* C26, amended: for a timestamp-sorted list and window_size >= 0 adjacent
\* windows are strictly separated, the next window starting more than
\* window_size after the end of the one before, and every window is bounded
\* by its first and last interaction.
C26_AdjacentWindowsSeparated ==
    (pc = "done" /\ SortedByTimestamp(interactions) /\ window_size >= 0) =>
        /\ \A i \in 1..(Len(windows) - 1) :
              windows[i + 1].start - windows[i].end > window_size
        /\ ~IdenticalBoundaries(windows)
        /\ BoundedByMembers(windows)

\* a sorted list with equal timestamps and window_size 0 next to a split:
\* the equal timestamps share a window and the next window starts later
C26_Witness ==
    /\ pc = "done"
    /\ window_size = 0
    /\ SortedByTimestamp(interactions)
    /\ Len(windows) = 2
    /\ Len(windows[1].interactions) = 2
    /\ windows[1].start = windows[1].end
    /\ windows[2].start = windows[1].end + 1

(***************************************************************************)
(* Validity and severity of the validation results, checked under          *)
(* SpecValidator.                                                          *)
(***************************************************************************)
\* every ValidationResult the check under way has returned
ProducedResults ==
    IF pc = "start" \/ validation.raised # NoException THEN {}
    ELSE IF pc \in {"validate_complete_workflow", "print_validation_summary"}
    THEN LET lists == ResultLists(validation.results)
         IN  UNION {{lists[c][i] : i \in DOMAIN lists[c]} : c \in DOMAIN lists}
    ELSE {validation.results[i] : i \in DOMAIN validation.results}

\* C30: every result a check returns is invalid exactly when its severity is
\* error (warnings and infos are valid), and print_validation_summary
\* returns True exactly when no result has severity error.
C30_InvalidIffError ==
    /\ \A r \in ProducedResults :
          /\ r.severity \in {"error", "warning", "info"}
          /\ (r.is_valid = FALSE) <=> (r.severity = "error")
    /\ pc = "print_validation_summary" =>
          /\ returned = Some(\A r \in ProducedResults : r.severity # "error")
          /\ returned = Some(\A r \in ProducedResults : r.is_valid)

\* the summary of results with warnings and infos but no error is True
C30_Witness ==
    /\ pc = "print_validation_summary"
    /\ returned = Some(TRUE)
    /\ \E r \in ProducedResults : r.severity = "warning" /\ r.is_valid
    /\ \E r \in ProducedResults : r.severity = "info" /\ r.is_valid

====
